---- MODULE Spec2Model ----
(***************************************************************************)
(* A model of the libmusicxml translators:                                 *)
(*   - msr2LpsrTranslator (src/src/lilypond/msr2LpsrTranslator.cpp): the   *)
(*     visitor that projects the canonical MSR into the LPSR clone tree;   *)
(*   - xml2guidovisitor (src/src/guido/xml2guidovisitor.cpp): the staff    *)
(*     allocation of the Guido translator;                                 *)
(*   - the browseData methods of lpsr.cpp and msrHarmonies.cpp.            *)
(*                                                                         *)
(* Objects are records [o, kind, id, attr]: o = "msr" is an element of the  *)
(* canonical MSR, o = "clone" an object created by the MSR->LPSR pass; id  *)
(* is the rank of the element in the visit; attr is the attribute of the   *)
(* element the handlers read (the double tremolo position of a note or a   *)
(* chord), which a newborn clone copies.                                   *)
(***************************************************************************)
EXTENDS Integers, Sequences, FiniteSets, TLC

VARIABLES
  tr,          \* the fields of the msr2LpsrTranslator instance
  visited,     \* the MSR elements the browser has entered and not yet left
  nextElt,     \* rank of the next MSR element the browser enters
  mutated,     \* objects that were the receiver of a setter or an append
  links,       \* <<receiver, argument>> of every setter or append call
  status,      \* "running", "fatal" (msrInternalError), "crashed", or
               \* "undefined" (the run goes on after undefined behaviour)
  fatalLine,   \* input line number given to msrInternalError
  lastClosed,  \* the element visitEnd was called for last, with the scope
               \* state before its visitStart, before and after its visitEnd
  voiceRepeat, \* the repeat state of the current voice clone
  lastCall,    \* the handler called last, with the repeat state before it
  guido,       \* the fields of the xml2guidovisitor
  guidoPart,   \* the part visited last by the xml2guidovisitor: its summary
               \* and the tags written for it
  score,       \* the fields of the lpsrScore, of its score block and of the
               \* parallel music of the block
  harmony,     \* the fields of a msrHarmony
  browsed,     \* the acceptIn and acceptOut calls of the last browse of the
               \* score or harmony as it is now
  harmonyClone, \* the last clone or copy made of the harmony
  guidoOut,    \* the last conversion helper the xml2guidovisitor ran: its
               \* arguments, the tags it added to the current element, the
               \* parameters it added to its tag, what it wrote on cerr
  clefsInPart, \* clefsInPart[currentPart] of the xml2guidovisitor
  partRun,     \* visitStart (S_part&) of the xml2guidovisitor run one loop
               \* iteration at a time: the loop it is in and its locals
  oah          \* the oahHandler deciphering a command line: argv, the index
               \* of the next string, its fields and the errors it raised

trVars == <<tr, visited, nextElt, mutated, links, status, fatalLine, lastClosed,
            voiceRepeat, lastCall>>

guidoVars == <<guido, guidoPart, partRun>>

lpsrVars == <<score, harmony, browsed>>

resultVars == <<harmonyClone, guidoOut, clefsInPart, oah>>

(***************************************************************************)
(* Bounds                                                                  *)
(***************************************************************************)
MaxElts == 4      \* MSR elements entered in one run
MaxDepth == 3     \* nesting depth of the elements below the voice

Null == [o |-> "null", kind |-> "none", id |-> 0, attr |-> "none"]
NoLine == 0

MsrRef(f) == [o |-> "msr", kind |-> f.kind, id |-> f.id, attr |-> f.attr]
CloneOf(f) == [o |-> "clone", kind |-> f.kind, id |-> f.id, attr |-> f.attr]

\* an LPSR block the pass creates for the clone of f
BlockOf(f) == [o |-> "lpsr", kind |-> f.kind, id |-> f.id, attr |-> f.attr]
\* the MSR score clone and the LPSR score, created when the score is entered
MsrScoreClone == [o |-> "clone", kind |-> "Score", id |-> 0, attr |-> "none"]
LpsrScore == [o |-> "lpsr", kind |-> "Score", id |-> 0, attr |-> "none"]

IsCanonical(x) == x.o = "msr"
IsClone(x) == x.o = "clone"

NoteKinds ==
  {"k_NoNoteKind", "kRestNote", "kSkipNote", "kUnpitchedNote",
   "kStandaloneNote", "kDoubleTremoloMemberNote", "kGraceNote",
   "kChordMemberNote", "kGraceChordMemberNote", "kTupletMemberNote",
   "kGraceTupletMemberNote", "kTupletMemberUnpitchedNote"}

GraceNoteKinds ==
  {"kGraceNote", "kGraceChordMemberNote", "kGraceTupletMemberNote"}

StaffKinds ==
  {"kStaffRegular", "kStaffTablature", "kStaffDrum", "kStaffRythmic",
   "kStaffHarmony", "kStaffFiguredBass"}

VoiceKinds == {"kRegularVoice", "kHarmonyVoice", "kFiguredBassVoice"}

\* a variable of the identification or of the header that was never set,
\* and one that holds a value
NotSet == [set |-> FALSE, value |-> ""]
VarValAssoc(value) == [set |-> TRUE, value |-> value]

\* the work and movement variables of an identification or of a header
NoVariables ==
  [workNumber |-> NotSet, workTitle |-> NotSet,
   movementNumber |-> NotSet, movementTitle |-> NotSet]

(***************************************************************************)
(* The translator after construction.                                      *)
(***************************************************************************)
TranslatorInit ==
  [ fOnGoingStaff            |-> FALSE,
    fOnGoingHarmonyVoice     |-> FALSE,
    fOnGoingFiguredBassVoice |-> FALSE,
    fOnGoingNote             |-> FALSE,
    fOnGoingDoubleTremolo    |-> FALSE,
    fOnGoingGraceNotesGroup  |-> FALSE,
    fOnGoingChord            |-> FALSE,
    fOnGoingStanza           |-> FALSE,
    fPartGroupsStack         |-> << >>,
    fPartGroupBlocksStack    |-> << >>,
    fTupletClonesStack       |-> << >>,
    fCurrentPartClone        |-> Null,
    fCurrentStaffClone       |-> Null,
    fCurrentVoiceClone       |-> Null,
    fCurrentStanzaClone      |-> Null,
    fCurrentPartBlock        |-> Null,
    fCurrentStaffBlock       |-> Null,
    fCurrentStaffTuningClone |-> Null,
    fCurrentVoiceOriginal    |-> Null,
    fCurrentNonGraceNoteClone    |-> Null,
    fCurrentGraceNoteClone       |-> Null,
    fFirstNoteCloneInVoice       |-> Null,
    fCurrentChordClone           |-> Null,
    fCurrentDoubleTremoloClone   |-> Null,
    fCurrentGraceNotesGroupClone |-> Null,
    fCurrentSegmentClone         |-> Null,
    fCurrentMeasureClone         |-> Null,
    fLastBarCheck                |-> Null,
    fCurrentSkipGraceNotesGroup  |-> Null,
    fOnGoingIdentification   |-> FALSE,
    fWorkNumberKnown         |-> FALSE,
    fWorkTitleKnown          |-> FALSE,
    fMovementNumberKnown     |-> FALSE,
    fMovementTitleKnown      |-> FALSE,
    fCurrentIdentification   |-> NoVariables,
    fLpsrScoreHeader         |-> NoVariables ]

\* the scope state the visitStart/visitEnd pairs push and restore
Snapshot(t) ==
  [ tuplets      |-> Len(t.fTupletClonesStack),
    partGroups   |-> Len(t.fPartGroupsStack),
    note         |-> t.fOnGoingNote,
    chord        |-> t.fOnGoingChord,
    staff        |-> t.fOnGoingStaff,
    graceNotes   |-> t.fOnGoingGraceNotesGroup,
    tremolo      |-> t.fOnGoingDoubleTremolo,
    harmonyVoice |-> t.fOnGoingHarmonyVoice,
    figuredBassVoice |-> t.fOnGoingFiguredBassVoice,
    stanza       |-> t.fOnGoingStanza ]

NoneClosed == [kind |-> "none", sub |-> "none", id |-> 0, line |-> 0,
               before |-> Snapshot(TranslatorInit),
               pre |-> Snapshot(TranslatorInit),
               after |-> Snapshot(TranslatorInit)]

\* msrVoice: a voice is outside of any repeat when it is created
VoiceRepeatInit ==
  [active |-> {"Outside"}, number |-> "none", kind |-> "none", wrappers |-> 0]

NoCall == [op |-> "none", kind |-> "none", line |-> 0, active |-> {}]

\* xml2guidovisitor::xml2guidovisitor, for the part number partNum
xml2guidovisitor(partNum) ==
  [ fPartNum                |-> partNum,
    fPartsAvailable         |-> 0,
    fCurrentStaffIndex      |-> 0,
    fCurrentPartStaffOffset |-> 0,
    fCurrentAccoladeIndex   |-> 0,
    fPartGroups             |-> << >>,
    fTotalDuration          |-> 0 ]

\* a part without a time element
NoTime == [symbol |-> "", senzamesura |-> FALSE, pairs |-> << >>,
           printObject |-> ""]

NoPart == [id |-> 0, voices |-> << >>, countStaves |-> 0, filtered |-> FALSE,
           offset |-> 0, accolade |-> 0, out |-> << >>, time |-> NoTime,
           measures |-> << >>]

NotRunning == [pc |-> "idle"]

GuidoIdle ==
  /\ guido = xml2guidovisitor(0)
  /\ guidoPart = NoPart
  /\ partRun = NotRunning

Node(kind, name) == [kind |-> kind, name |-> name]

\* lpsrScoreBlock::lpsrScoreBlock: the fields in the order they are created
lpsrScoreBlock_fields ==
  << Node("lpsrParallelMusic", "fScoreBlockParallelMusic"),
     Node("lpsrLayout", "fScoreBlockLayout"),
     Node("msrMidi", "fScoreBlockMidi") >>

Optional(present, node) == IF present THEN <<node>> ELSE << >>

\* lpsrScore::lpsrScore under the options of the run: the fields in the
\* order they are created, the Scheme functions map and the empty lists
lpsrScore_lpsrScore(longAndShortOptionsDiffer, fGenerateLilyPondCompileDate, fGenerateGlobal) ==
  [ fields |->
      << Node("lpsrLilypondVarValAssoc", "fLilyPondVersion"),
         Node("lpsrComment", "fInputSourceNameComment"),
         Node("lpsrComment", "fTranslationDateComment"),
         Node("lpsrComment", "fCommandLineLongOptionsComment") >>
      \o Optional(longAndShortOptionsDiffer,
                  Node("lpsrComment", "fCommandLineShortOptionsComment"))
      \o << Node("lpsrSchemeVarValAssoc", "fGlobalStaffSizeAssoc"),
            Node("lpsrHeader", "fHeader"),
            Node("lpsrPaper", "fPaper"),
            Node("lpsrLayout", "fScoreLayout"),
            Node("lpsrLilypondVarValAssoc", "fMyBreakIsBreakAssoc"),
            Node("lpsrLilypondVarValAssoc", "fMyBreakIsEmptyAssoc") >>
      \o Optional(fGenerateGlobal,
                  Node("lpsrLilypondVarValAssoc", "fGlobalAssoc"))
      \o << Node("lpsrScoreBlock", "fScoreBlock") >>,
    fTongueSchemeFunctionNeeded |-> FALSE,
    fScoreSchemeFunctionsMap |->
      IF fGenerateLilyPondCompileDate THEN {"date & time"} ELSE {},
    schemeFunctionsInserted |->
      IF fGenerateLilyPondCompileDate THEN <<"date & time">> ELSE << >>,
    fScoreElements |-> << >>,
    fParallelMusicElements |-> << >> ]

\* msrHarmony::msrHarmony: no harmony degree yet
(***************************************************************************)
(* msrHarmony: pitches are numbers of quarter tones above C, durations and *)
(* offsets are pairs <<numerator, denominator>>.                           *)
(***************************************************************************)
k_NoQuarterTonesPitch_QTP == -1

QuarterTonesInOctave == 24

\* msrChordStructure: the intervals of the chord of a harmony kind, in
\* quarter tones above the root
msrChordStructure(harmonyKind) ==
  CASE harmonyKind = "kMajorHarmony" -> <<0, 8, 14>>
    [] harmonyKind = "kMinorHarmony" -> <<0, 6, 14>>

bassChordIntervalForChordInversion(chordStructure, inversion) ==
  chordStructure[inversion + 1]

noteAtIntervalFromQuarterTonesPitch(interval, pitch) ==
  (pitch + interval) % QuarterTonesInOctave

\* the bass that the constructor gives a harmony of this inversion
invertedChordBassQuarterTonesPitchKind(a) ==
  noteAtIntervalFromQuarterTonesPitch(
    bassChordIntervalForChordInversion(
      msrChordStructure(a.harmonyKind), a.harmonyInversion),
    a.harmonyRootQuarterTonesPitchKind)

\* msrHarmony::msrHarmony on the arguments a; msrMusicXMLError is reported
\* when the inversion is not compatible with the bass
msrHarmony(a) ==
  [ fInputLineNumber |-> a.inputLineNumber,
    fHarmonyVoiceUpLink |-> a.harmonyVoiceUpLink,
    fHarmonyRootQuarterTonesPitchKind |-> a.harmonyRootQuarterTonesPitchKind,
    fHarmonyKind |-> a.harmonyKind,
    fHarmonyKindText |-> a.harmonyKindText,
    fHarmonyInversion |-> a.harmonyInversion,
    fHarmonyBassQuarterTonesPitchKind |->
      IF a.harmonyInversion > 0
      THEN invertedChordBassQuarterTonesPitchKind(a)
      ELSE a.harmonyBassQuarterTonesPitchKind,
    fSoundingWholeNotes |-> a.harmonySoundingWholeNotes,
    fHarmonyDisplayWholeNotes |-> a.harmonyDisplayWholeNotes,
    fHarmonyStaffNumber |-> a.harmonyStaffNumber,
    fHarmonyTupletFactor |-> a.harmonyTupletFactor,
    fHarmonyWholeNotesOffset |-> a.harmonyWholeNotesOffset,
    fHarmonyDegreesList |-> << >>,
    msrMusicXMLError |->
      /\ a.harmonyInversion > 0
      /\ a.harmonyBassQuarterTonesPitchKind # k_NoQuarterTonesPitch_QTP
      /\ invertedChordBassQuarterTonesPitchKind(a)
           # a.harmonyBassQuarterTonesPitchKind ]

\* the arguments with which a harmony creates a clone or a copy of itself
\* in the voice containingVoice
OwnArguments(h, containingVoice) ==
  [ inputLineNumber |-> h.fInputLineNumber,
    harmonyVoiceUpLink |-> containingVoice,
    harmonyRootQuarterTonesPitchKind |-> h.fHarmonyRootQuarterTonesPitchKind,
    harmonyKind |-> h.fHarmonyKind,
    harmonyKindText |-> h.fHarmonyKindText,
    harmonyInversion |-> h.fHarmonyInversion,
    harmonyBassQuarterTonesPitchKind |-> h.fHarmonyBassQuarterTonesPitchKind,
    harmonySoundingWholeNotes |-> h.fSoundingWholeNotes,
    harmonyDisplayWholeNotes |-> h.fHarmonyDisplayWholeNotes,
    harmonyStaffNumber |-> h.fHarmonyStaffNumber,
    harmonyTupletFactor |-> h.fHarmonyTupletFactor,
    harmonyWholeNotesOffset |-> h.fHarmonyWholeNotesOffset ]

\* a newborn clone that keeps the voice uplink of the harmony it is made from
createHarmonyNewbornClone_OwnUpLink(h, containingVoice) ==
  msrHarmony(OwnArguments(h, h.fHarmonyVoiceUpLink))

createHarmonyNewbornClone(h, containingVoice) ==
  msrHarmony(OwnArguments(h, containingVoice))

createHarmonyDeepCopy(h, containingVoice) ==
  msrHarmony(OwnArguments(h, containingVoice))

\* a harmony in root position, with no bass and no degree yet
msrHarmony_msrHarmony ==
  msrHarmony([ inputLineNumber |-> 1,
               harmonyVoiceUpLink |-> "voice 1",
               harmonyRootQuarterTonesPitchKind |-> 0,
               harmonyKind |-> "kMajorHarmony",
               harmonyKindText |-> "",
               harmonyInversion |-> 0,
               harmonyBassQuarterTonesPitchKind |-> k_NoQuarterTonesPitch_QTP,
               harmonySoundingWholeNotes |-> <<1, 4>>,
               harmonyDisplayWholeNotes |-> <<1, 4>>,
               harmonyStaffNumber |-> 1,
               harmonyTupletFactor |-> <<1, 1>>,
               harmonyWholeNotesOffset |-> <<0, 1>> ])

NoOutput == [fn |-> "none", args |-> [none |-> TRUE], added |-> << >>, params |-> << >>, cerr |-> << >>]

(***************************************************************************)
(* The options and help handler (oahBasicTypes.cpp) deciphering a command  *)
(* line.  A command-line string and an option name are the sequence of     *)
(* their characters.                                                       *)
(***************************************************************************)
MaxArgs == 3      \* strings of a command line after the program name

NoAtom == << >>   \* fPendingValuedAtom == nullptr

\* oahHandler::oahHandler: the fields deciphering a command line uses, and
\* the locals n and lastOptionNameFound of decipherOptionsAndArguments.
\* values records the handleValue and handleDefaultValue calls of the atoms
\* (since, at: the indices of the strings naming the atom and giving the
\* value), madePending the strings that named a valued atom.
oahHandler_oahHandler(argv) ==
  [argv |-> argv, n |-> 1, lastOptionNameFound |-> << >>,
   fNowEverythingIsAnArgument |-> FALSE,
   fHandlerOptionalValuesStyleKind |-> "kOptionalValuesStyleGNU",
   fPendingValuedAtom |-> NoAtom,
   fHandlerArgumentsVector |-> << >>,
   values |-> << >>, helps |-> << >>, errors |-> << >>,
   pendingSince |-> 0, madePending |-> {},
   running |-> TRUE]

NoCommandLine == [oahHandler_oahHandler(<< >>) EXCEPT !.running = FALSE]

\* oahError writes the message and throws: deciphering stops
oahError(h, by, message) ==
  [h EXCEPT !.errors = Append(@, [by |-> by, message |-> message, at |-> h.n]),
            !.running = FALSE]

NoElement == [class |-> "none", valued |-> FALSE, fValueIsOptional |-> FALSE]

\* fHandlerElementsMap: the options registered in the handler, a string
\* atom o, a string atom d with a default value, a boolean atom b and a
\* group g
fetchElementFromMap(name) ==
  CASE name = <<"o">> ->
         [class |-> "oahStringAtom", valued |-> TRUE,
          fValueIsOptional |-> FALSE]
    [] name = <<"d">> ->
         [class |-> "oahStringWithDefaultValueAtom", valued |-> TRUE,
          fValueIsOptional |-> TRUE]
    [] name = <<"b">> ->
         [class |-> "oahBooleanAtom", valued |-> FALSE,
          fValueIsOptional |-> FALSE]
    [] name = <<"g">> ->
         [class |-> "oahGroup", valued |-> FALSE,
          fValueIsOptional |-> FALSE]
    [] OTHER -> NoElement

\* oahStringAtom::handleValue stores any string in the variable of the atom
handleValue(h, atom, since, theString) ==
  [h EXCEPT !.values = Append(@, [atom |-> atom, value |-> theString,
                                  default |-> FALSE,
                                  since |-> since, at |-> h.n])]

checkMissingPendingValuedAtomValue(h, atomName) ==
  IF h.fPendingValuedAtom # NoAtom
    THEN LET checked ==
               IF h.fHandlerOptionalValuesStyleKind = "kOptionalValuesStyleGNU"
                 THEN oahError(h, "checkMissingPendingValuedAtomValue",
                               "should be used with a '='")
                 ELSE IF fetchElementFromMap(h.fPendingValuedAtom)
                           .fValueIsOptional
                        THEN [h EXCEPT !.values =
                                Append(@, [atom |-> h.fPendingValuedAtom,
                                           value |-> << >>,
                                           default |-> TRUE,
                                           since |-> h.pendingSince,
                                           at |-> h.n])]
                        ELSE oahError(h, "checkMissingPendingValuedAtomValue",
                                      "expects a value")
         IN  IF checked.running
               THEN [checked EXCEPT !.fPendingValuedAtom = NoAtom]
               ELSE checked
    ELSE h

\* the atoms of the handler are no synonyms; handleOptionUnderName returns
\* the atom when it needs a value, and a null pointer otherwise
handleAtomName(h, atomName) ==
  LET checked == checkMissingPendingValuedAtomValue(h, atomName)
      atom == fetchElementFromMap(atomName)
  IN  IF ~ checked.running
        THEN checked
        ELSE IF atom.valued
               THEN [checked EXCEPT !.fPendingValuedAtom = atomName,
                                    !.pendingSince = h.n,
                                    !.madePending =
                                       @ \cup {[at |-> h.n,
                                                atom |-> atomName]}]
               ELSE [checked EXCEPT !.fPendingValuedAtom = NoAtom]

\* handleGroupName prints the help of the group
handleOptionName(h, name) ==
  LET element == fetchElementFromMap(name)
  IN  IF element = NoElement
        THEN oahError(h, "handleOptionName", "is unknown")
        ELSE IF element.class = "oahGroup"
               THEN [h EXCEPT !.helps = Append(@, name)]
               ELSE handleAtomName(h, name)

EqualsSignPosition(currentOptionName) ==
  IF \E i \in DOMAIN currentOptionName : currentOptionName[i] = "="
    THEN CHOOSE i \in DOMAIN currentOptionName :
           /\ currentOptionName[i] = "="
           /\ \A j \in 1..(i - 1) : currentOptionName[j] # "="
    ELSE 0

\* decipherOption with its result stored in lastOptionNameFound.  The handler
\* has no prefix, and the option names of the command lines are single
\* characters, which optionNameIsASingleCharacterOptionsCluster is not asked
\* about.
decipherOption(h, currentString) ==
  LET optionTrailer == Tail(currentString)
      currentOptionName ==
        IF optionTrailer[1] = "-" THEN Tail(optionTrailer) ELSE optionTrailer
      equalsSignPosition == EqualsSignPosition(currentOptionName)
      name == SubSeq(currentOptionName, 1, equalsSignPosition - 1)
      stringAfterEqualsSign ==
        SubSeq(currentOptionName, equalsSignPosition + 1,
               Len(currentOptionName))
      element == fetchElementFromMap(name)
      deciphered ==
        IF equalsSignPosition # 0
          THEN IF element # NoElement
                 THEN IF element.class = "oahStringWithDefaultValueAtom"
                        THEN IF h.fHandlerOptionalValuesStyleKind
                                  = "kOptionalValuesStyleGNU"
                               THEN handleValue(h, name, h.n,
                                                stringAfterEqualsSign)
                               ELSE oahError(h, "decipherOption",
                                      "cannot be used with a '='")
                        ELSE oahError(h, "decipherOption",
                               "doesn't have default value")
                 ELSE oahError(h, "decipherOption",
                        "is not the name of an option")
          ELSE handleOptionName(h, currentOptionName)
  IN  IF optionTrailer[1] = "-" /\ Len(optionTrailer) = 1
        THEN [h EXCEPT !.fNowEverythingIsAnArgument = TRUE,
                       !.lastOptionNameFound = << >>]
        ELSE [deciphered EXCEPT !.lastOptionNameFound = currentOptionName]

handleOptionValueOrArgument(h, theString) ==
  IF h.fPendingValuedAtom # NoAtom
    THEN [handleValue(h, h.fPendingValuedAtom, h.pendingSince, theString)
            EXCEPT !.fPendingValuedAtom = NoAtom]
    ELSE [h EXCEPT !.fHandlerArgumentsVector = Append(@, theString)]

\* one iteration of the loop of decipherOptionsAndArguments on argv [n]
decipherOptionsAndArguments_string(h) ==
  LET currentString == h.argv[h.n]
      handled ==
        IF currentString[1] = "-"
          THEN IF Len(currentString) = 1
                 THEN [h EXCEPT !.fHandlerArgumentsVector =
                                   Append(@, currentString)]
                 ELSE decipherOption(h, currentString)
          ELSE handleOptionValueOrArgument(h, currentString)
  IN  IF handled.running THEN [handled EXCEPT !.n = @ + 1] ELSE handled

\* the end of decipherOptionsAndArguments, once argv [n] == 0
decipherOptionsAndArguments_end(h) ==
  [checkMissingPendingValuedAtomValue(h, h.lastOptionNameFound)
     EXCEPT !.running = FALSE]

NoClone == [op |-> "none", containingVoice |-> "none", asserted |-> TRUE,
            from |-> msrHarmony_msrHarmony, result |-> msrHarmony_msrHarmony]

NothingBrowsed == [root |-> Node("none", "none"), calls |-> << >>]

LpsrIdle ==
  /\ score = lpsrScore_lpsrScore(FALSE, FALSE, FALSE)
  /\ harmony = msrHarmony_msrHarmony
  /\ browsed = NothingBrowsed
  /\ harmonyClone = NoClone
  /\ guidoOut = NoOutput
  /\ clefsInPart = {}
  /\ oah = NoCommandLine

(***************************************************************************)
(* Effects of a handler on the objects: a sequence of calls, possibly      *)
(* ended by a fatal error or a crash.                                      *)
(***************************************************************************)
Call(recv, arg) == [op |-> "call", recv |-> recv, arg |-> arg, line |-> NoLine]
\* msrInternalError reports the error with the input line and aborts
msrInternalError(line) == [op |-> "fatal", recv |-> Null, arg |-> Null, line |-> line]
Crash == [op |-> "crash", recv |-> Null, arg |-> Null, line |-> NoLine]
\* undefined behaviour: top () or pop () of an empty std::stack
Undefined == [op |-> "undefined", recv |-> Null, arg |-> Null, line |-> NoLine]

\* a call through a null smart pointer does not return
Deref(e) == IF e.op = "call" /\ e.recv = Null THEN Crash ELSE e

RECURSIVE Stops(_)
\* does the sequence of effects end the run
Stops(es) ==
  IF es = << >> THEN FALSE
  ELSE Deref(Head(es)).op \in {"fatal", "crash", "undefined"} \/ Stops(Tail(es))

RECURSIVE Done(_)
\* the effects that take place: those before the first fatal error or crash
Done(es) ==
  IF es = << >> THEN << >>
  ELSE IF Deref(Head(es)).op \in {"fatal", "crash", "undefined"}
       THEN <<Deref(Head(es))>>
       ELSE <<Head(es)>> \o Done(Tail(es))

Calls(es) == {Done(es)[i] : i \in {j \in 1..Len(Done(es)) : Done(es)[j].op = "call"}}

\* the outcomes of the effects: undefined behaviour either crashes the run
\* or lets it go on in an undefined state
StatusAfter(es) ==
  IF ~Stops(es) THEN {"running"}
  ELSE CASE Done(es)[Len(Done(es))].op = "fatal" -> {"fatal"}
         [] Done(es)[Len(Done(es))].op = "crash" -> {"crashed"}
         [] Done(es)[Len(Done(es))].op = "undefined" -> {"crashed", "undefined"}

FatalLineAfter(es) ==
  IF StatusAfter(es) = {"fatal"} THEN Done(es)[Len(Done(es))].line ELSE NoLine

\* the objects' part of a handler that runs the effects es and, when none of
\* them stops the run, leaves the translator fields as t
Apply(es, t) ==
  /\ mutated' = mutated \cup {c.recv : c \in Calls(es)}
  /\ links' = links \cup {<<c.recv, c.arg>> : c \in Calls(es)}
  /\ status' \in StatusAfter(es)
  /\ fatalLine' = FatalLineAfter(es)
  /\ tr' = IF Stops(es) THEN tr ELSE t

(***************************************************************************)
(* msr2LpsrTranslator: notes                                               *)
(***************************************************************************)
\* visitStart (S_msrNote&): the fields after the handler
visitStart_Note(t, elt) ==
  IF elt.sub \in GraceNoteKinds
  THEN [t EXCEPT !.fCurrentGraceNoteClone = CloneOf(elt)]
  ELSE [t EXCEPT !.fCurrentNonGraceNoteClone = CloneOf(elt),
                 !.fFirstNoteCloneInVoice =
                     IF @ = Null THEN CloneOf(elt) ELSE @,
                 !.fOnGoingNote = TRUE]

\* visitEnd (S_msrNote&), case kDoubleTremoloMemberNote; the position in the
\* double tremolo and the error messages are read through
\* fCurrentNonGraceNoteClone
NoteEnd_DoubleTremoloMember(t, elt) ==
  IF t.fCurrentNonGraceNoteClone = Null THEN <<Crash>>
  ELSE IF t.fOnGoingDoubleTremolo
  THEN IF t.fCurrentNonGraceNoteClone.attr = "first"
       THEN <<Call(t.fCurrentDoubleTremoloClone, t.fCurrentNonGraceNoteClone)>>
       ELSE IF t.fCurrentNonGraceNoteClone.attr = "second"
       THEN <<Call(t.fCurrentDoubleTremoloClone, t.fCurrentNonGraceNoteClone)>>
       ELSE <<msrInternalError(elt.line)>>
  ELSE <<msrInternalError(elt.line)>>

\* visitEnd (S_msrNote&), case kGraceNote
\* the error message is built from fCurrentNonGraceNoteClone->asShortString ()
NoteEnd_Grace(t, elt) ==
  IF ~t.fOnGoingGraceNotesGroup
  THEN (IF t.fCurrentNonGraceNoteClone = Null THEN <<Crash>> ELSE << >>)
       \o <<msrInternalError(elt.line)>>
  ELSE <<Call(t.fCurrentGraceNotesGroupClone, t.fCurrentGraceNoteClone)>>

\* visitEnd (S_msrNote&), cases kChordMemberNote and kGraceChordMemberNote
NoteEnd_ChordMember(t, elt) ==
  IF t.fOnGoingChord
  THEN <<Call(t.fCurrentChordClone,
              IF elt.sub = "kGraceChordMemberNote"
              THEN t.fCurrentGraceNoteClone
              ELSE t.fCurrentNonGraceNoteClone)>>
  ELSE <<msrInternalError(elt.line)>>

\* visitEnd (S_msrNote&), the tuplet member cases: top () of the stack,
\* which is undefined on an empty stack
NoteEnd_TupletMember(t, elt) ==
  IF t.fTupletClonesStack = << >>
  THEN <<Undefined>>
  ELSE <<Call(t.fTupletClonesStack[Len(t.fTupletClonesStack)],
              t.fCurrentNonGraceNoteClone)>>

\* visitEnd (S_msrNote&): the calls of the switch on the note kind, then the
\* read of the editorial accidental kind through fCurrentNonGraceNoteClone
visitEnd_Note_effects(t, elt) ==
  (CASE elt.sub = "k_NoNoteKind" -> << >>
     [] elt.sub \in {"kRestNote", "kSkipNote", "kUnpitchedNote", "kStandaloneNote"} ->
          <<Call(t.fCurrentVoiceClone, t.fCurrentNonGraceNoteClone)>>
     [] elt.sub = "kDoubleTremoloMemberNote" -> NoteEnd_DoubleTremoloMember(t, elt)
     [] elt.sub = "kGraceNote" -> NoteEnd_Grace(t, elt)
     [] elt.sub \in {"kChordMemberNote", "kGraceChordMemberNote"} ->
          NoteEnd_ChordMember(t, elt)
     [] elt.sub \in {"kTupletMemberNote", "kGraceTupletMemberNote",
                     "kTupletMemberUnpitchedNote"} ->
          NoteEnd_TupletMember(t, elt))
  \o (IF t.fCurrentNonGraceNoteClone = Null THEN <<Crash>> ELSE << >>)

visitEnd_Note(t, elt) == [t EXCEPT !.fOnGoingNote = FALSE]

(***************************************************************************)
(* msr2LpsrTranslator: chords                                              *)
(***************************************************************************)
visitStart_Chord_effects(t, elt) ==
  IF Len(t.fTupletClonesStack) # 0
  THEN <<Call(t.fTupletClonesStack[Len(t.fTupletClonesStack)], CloneOf(elt))>>
  ELSE IF t.fOnGoingDoubleTremolo
  THEN IF elt.attr \in {"first", "second"}
       THEN <<Call(t.fCurrentDoubleTremoloClone, MsrRef(elt))>>
       ELSE <<msrInternalError(elt.line)>>
  ELSE IF t.fCurrentGraceNotesGroupClone # Null
  THEN <<Call(t.fCurrentGraceNotesGroupClone, CloneOf(elt))>>
  ELSE <<Call(t.fCurrentVoiceClone, CloneOf(elt))>>

visitStart_Chord(t, elt) ==
  [t EXCEPT !.fCurrentChordClone = CloneOf(elt), !.fOnGoingChord = TRUE]

visitEnd_Chord(t, elt) == [t EXCEPT !.fOnGoingChord = FALSE]

(***************************************************************************)
(* msr2LpsrTranslator: tuplets                                             *)
(***************************************************************************)
visitStart_Tuplet(t, elt) ==
  [t EXCEPT !.fTupletClonesStack = Append(@, CloneOf(elt))]

\* fTupletClonesStack.pop (), on a non empty stack
TupletPop(stack) == SubSeq(stack, 1, Len(stack) - 1)

\* visitEnd (S_msrTuplet&): pop (), which is undefined on an empty stack,
\* then the visited tuplet is added to the new top of the stack, or to the
\* voice clone
visitEnd_Tuplet_effects(t, elt) ==
  IF t.fTupletClonesStack = << >>
  THEN <<Undefined>>
  ELSE IF Len(TupletPop(t.fTupletClonesStack)) # 0
  THEN <<Call(TupletPop(t.fTupletClonesStack)[Len(t.fTupletClonesStack) - 1],
              MsrRef(elt))>>
  ELSE <<Call(t.fCurrentVoiceClone, MsrRef(elt))>>

\* a visitEnd that leaves the closed tuplet on the stack
visitEnd_Tuplet_NoPop(t, elt) == t

visitEnd_Tuplet(t, elt) ==
  [t EXCEPT !.fTupletClonesStack = TupletPop(@)]

(***************************************************************************)
(* msr2LpsrTranslator: double tremolos                                     *)
(***************************************************************************)
visitStart_DoubleTremolo(t, elt) ==
  [t EXCEPT !.fCurrentDoubleTremoloClone = MsrRef(elt),
            !.fOnGoingDoubleTremolo = TRUE]

visitEnd_DoubleTremolo_effects(t, elt) ==
  <<Call(t.fCurrentVoiceClone, t.fCurrentDoubleTremoloClone)>>

visitEnd_DoubleTremolo(t, elt) ==
  [t EXCEPT !.fCurrentDoubleTremoloClone = Null,
            !.fOnGoingDoubleTremolo = FALSE]

(***************************************************************************)
(* msr2LpsrTranslator: grace notes groups                                  *)
(***************************************************************************)
\* elt.sub tells whether the group has a note uplink
visitStart_GraceNotesGroup_effects(t, elt) ==
  <<Call(t.fCurrentNonGraceNoteClone, CloneOf(elt))>>
  \o (IF elt.sub = "noNoteUplink" THEN <<msrInternalError(elt.line)>> ELSE << >>)

\* elt->createSkipGraceNotesGroupClone (fCurrentVoiceClone)
SkipCloneOf(elt) ==
  [o |-> "skip", kind |-> elt.kind, id |-> elt.id, attr |-> elt.attr]

\* visitStart (S_msrGraceNotesGroup&): elt.attr tells whether the note the
\* group is attached to is the first non grace note of the original voice
visitStart_GraceNotesGroup(t, elt) ==
  [t EXCEPT !.fCurrentGraceNotesGroupClone = CloneOf(elt),
            !.fOnGoingGraceNotesGroup = TRUE,
            !.fCurrentSkipGraceNotesGroup =
                IF elt.attr = "attachedToFirstNote" THEN SkipCloneOf(elt)
                ELSE @]

visitEnd_GraceNotesGroup(t, elt) ==
  [t EXCEPT !.fCurrentGraceNotesGroupClone = Null,
            !.fOnGoingGraceNotesGroup = FALSE]

(***************************************************************************)
(* msr2LpsrTranslator: part groups and parts                               *)
(***************************************************************************)
\* visitStart (S_msrPartGroup&): the clone and its block are pushed
visitStart_PartGroup(t, elt) ==
  [t EXCEPT !.fPartGroupsStack = Append(@, CloneOf(elt)),
            !.fPartGroupBlocksStack = Append(@, BlockOf(elt))]

\* visitEnd (S_msrPartGroup&): top () of an empty stack is undefined
\* variant: every closed part group clone goes to the score clone
visitEnd_PartGroup_AlwaysToScore(t) ==
  IF t.fPartGroupsStack = << >> THEN <<Undefined>>
  ELSE <<Call(MsrScoreClone, t.fPartGroupsStack[Len(t.fPartGroupsStack)])>>

\* the part group clone on top goes to the score clone when it is alone on
\* the stack, else to the part group clone below it
visitEnd_PartGroup_clone(t) ==
  IF t.fPartGroupsStack = << >> THEN <<Undefined>>
  ELSE IF Len(t.fPartGroupsStack) = 1
  THEN <<Call(MsrScoreClone, t.fPartGroupsStack[1])>>
  ELSE <<Call(t.fPartGroupsStack[Len(t.fPartGroupsStack) - 1],
              t.fPartGroupsStack[Len(t.fPartGroupsStack)])>>

\* the part group block on top goes to the score block of the LPSR score
\* when it is alone on the stack, else to the part group block below it
visitEnd_PartGroup_block(t) ==
  IF t.fPartGroupBlocksStack = << >> THEN <<Undefined>>
  ELSE IF Len(t.fPartGroupBlocksStack) = 1
  THEN <<Call(LpsrScore, t.fPartGroupBlocksStack[1])>>
  ELSE <<Call(t.fPartGroupBlocksStack[Len(t.fPartGroupBlocksStack) - 1],
              t.fPartGroupBlocksStack[Len(t.fPartGroupBlocksStack)])>>

visitEnd_PartGroup_effects(t, elt) ==
  visitEnd_PartGroup_clone(t) \o visitEnd_PartGroup_block(t)

visitEnd_PartGroup(t, elt) ==
  [t EXCEPT !.fPartGroupsStack = SubSeq(@, 1, Len(@) - 1),
            !.fPartGroupBlocksStack = SubSeq(@, 1, Len(@) - 1)]

visitStart_Part_effects(t, elt) ==
  IF t.fPartGroupsStack = << >> THEN <<Undefined>>
  ELSE <<Call(t.fPartGroupsStack[Len(t.fPartGroupsStack)], CloneOf(elt))>>
       \o (IF t.fPartGroupBlocksStack = << >> THEN <<Undefined>>
           ELSE <<Call(t.fPartGroupBlocksStack[Len(t.fPartGroupBlocksStack)],
                       BlockOf(elt))>>)

visitStart_Part(t, elt) ==
  [t EXCEPT !.fCurrentPartClone = CloneOf(elt),
            !.fCurrentPartBlock = BlockOf(elt)]

\* the voice clones registered in the staff clones of the part clone
VoiceClonesOfPart(part) ==
  {l[2] : l \in {k \in links :
     /\ k[1].o = "clone" /\ k[1].kind = "Staff"
     /\ k[2].o = "clone" /\ k[2].kind = "Voice"
     /\ <<part, k[1]>> \in links}}

RECURSIVE CallEach(_, _)
CallEach(recvs, arg) ==
  IF recvs = {} THEN << >>
  ELSE LET r == CHOOSE x \in recvs : TRUE
       IN <<Call(r, arg)>> \o CallEach(recvs \ {r}, arg)

\* msrPart::addSkipGraceNotesGroupBeforeAheadOfVoicesClonesIfNeeded: the
\* skip group is prepended to the voices of the part other than the voice
\* given as the origin of the grace notes
addSkipGraceNotesGroupBeforeAheadOfVoicesClonesIfNeeded(part, originVoice, skip) ==
  CallEach(VoiceClonesOfPart(part) \ {originVoice}, skip)

\* visitEnd (S_msrPart&), the skip grace notes group
visitEnd_Part_skip(t) ==
  IF t.fCurrentSkipGraceNotesGroup # Null
  THEN addSkipGraceNotesGroupBeforeAheadOfVoicesClonesIfNeeded(
         t.fCurrentPartClone, t.fCurrentVoiceClone,
         t.fCurrentSkipGraceNotesGroup)
  ELSE << >>

\* visitEnd (S_msrPart&): elt.attr tells whether the part clone has an
\* instrument abbreviation
visitEnd_Part_effects(t, elt) ==
  IF t.fCurrentPartClone = Null THEN <<Crash>>
  ELSE (IF t.fCurrentPartClone.attr = "noAbbreviation"
        THEN <<Call(t.fCurrentPartClone, Null), Call(t.fCurrentPartClone, Null)>>
        ELSE << >>)
       \o visitEnd_Part_skip(t)

visitEnd_Part(t, elt) == [t EXCEPT !.fCurrentSkipGraceNotesGroup = Null]

(***************************************************************************)
(* msr2LpsrTranslator: staves, staff details                               *)
(***************************************************************************)
visitStart_Staff_effects(t, elt) ==
  <<Call(t.fCurrentPartClone, CloneOf(elt))>>
  \o (CASE elt.sub \in {"kStaffRegular", "kStaffTablature", "kStaffDrum",
                        "kStaffRythmic"} ->
              <<Call(t.fCurrentPartBlock, BlockOf(elt))>>
         [] elt.sub = "kStaffHarmony" -> << >>
         [] elt.sub = "kStaffFiguredBass" ->
              <<Call(t.fCurrentPartClone, CloneOf(elt))>>)

visitStart_Staff(t, elt) ==
  [t EXCEPT !.fCurrentStaffClone = CloneOf(elt),
            !.fCurrentStaffBlock =
                IF elt.sub \in {"kStaffRegular", "kStaffTablature", "kStaffDrum",
                                "kStaffRythmic"}
                THEN BlockOf(elt) ELSE @,
            !.fOnGoingStaff = TRUE]

visitEnd_Staff(t, elt) ==
  CASE elt.sub \in {"kStaffRegular", "kStaffDrum", "kStaffRythmic"} ->
         [t EXCEPT !.fOnGoingStaff = FALSE]
    [] elt.sub = "kStaffTablature" -> t
    [] elt.sub = "kStaffHarmony" -> t
    [] elt.sub = "kStaffFiguredBass" -> t

visitStart_StaffDetails(t, elt) ==
  [t EXCEPT !.fCurrentStaffTuningClone = Null]

visitEnd_StaffDetails_effects(t, elt) ==
  <<Call(t.fCurrentStaffClone, MsrRef(elt))>>

(***************************************************************************)
(* msr2LpsrTranslator: voices, stanzas                                     *)
(***************************************************************************)
\* visitStart (S_msrVoice&): elt.attr tells whether music has been inserted
\* in the voice
visitStart_Voice_effects(t, elt) ==
  <<Call(t.fCurrentStaffClone, CloneOf(elt))>>
  \o (CASE elt.sub = "kRegularVoice" ->
              <<Call(LpsrScore, CloneOf(elt)),
                Call(t.fCurrentStaffBlock, CloneOf(elt))>>
         [] elt.sub = "kHarmonyVoice" ->
              IF elt.attr = "musicInserted"
              THEN <<Call(LpsrScore, CloneOf(elt)),
                     Call(t.fCurrentPartBlock, BlockOf(elt))>>
              ELSE << >>
         [] elt.sub = "kFiguredBassVoice" ->
              <<Call(t.fCurrentPartClone, CloneOf(elt))>>
              \o (IF elt.attr = "musicInserted"
                  THEN <<Call(LpsrScore, CloneOf(elt)),
                         Call(t.fCurrentPartBlock, BlockOf(elt))>>
                  ELSE << >>))

visitStart_Voice(t, elt) ==
  [t EXCEPT !.fCurrentVoiceOriginal = MsrRef(elt),
            !.fCurrentVoiceClone = CloneOf(elt),
            !.fOnGoingHarmonyVoice =
                IF elt.sub = "kHarmonyVoice" /\ elt.attr = "musicInserted"
                THEN TRUE ELSE @,
            !.fOnGoingFiguredBassVoice =
                IF elt.sub = "kFiguredBassVoice" /\ elt.attr = "musicInserted"
                THEN TRUE ELSE @,
            !.fFirstNoteCloneInVoice = Null]

visitEnd_Voice(t, elt) ==
  CASE elt.sub = "kRegularVoice" -> t
    [] elt.sub = "kHarmonyVoice" -> [t EXCEPT !.fOnGoingHarmonyVoice = FALSE]
    [] elt.sub = "kFiguredBassVoice" ->
         [t EXCEPT !.fOnGoingFiguredBassVoice = FALSE]

visitStart_Stanza_effects(t, elt) ==
  <<Call(LpsrScore, CloneOf(elt)), Call(t.fCurrentStaffBlock, CloneOf(elt))>>

visitStart_Stanza(t, elt) ==
  [t EXCEPT !.fCurrentStanzaClone = CloneOf(elt), !.fOnGoingStanza = TRUE]

visitEnd_Stanza(t, elt) ==
  [t EXCEPT !.fCurrentStanzaClone = Null, !.fOnGoingStanza = FALSE]

(***************************************************************************)
(* msrVoice: the repeat state machine of a voice clone, with the states    *)
(* Outside, InCommonPart and InEnding (number, kind).  A handler returns   *)
(* the new repeat state of the voice, and ok = FALSE when the nesting is   *)
(* malformed, which is fatal.                                              *)
(***************************************************************************)
RepeatOk(v) == [ok |-> TRUE, v |-> v]
RepeatMalformed(v) == [ok |-> FALSE, v |-> v]

handleRepeatStartInVoiceClone(v, line) ==
  IF v.active = {"Outside"}
  THEN RepeatOk([v EXCEPT !.active = {"InCommonPart"}, !.wrappers = @ + 1])
  ELSE RepeatMalformed(v)

handleRepeatEndInVoiceClone(v, line) ==
  IF v.active = {"InCommonPart"}
  THEN RepeatOk([v EXCEPT !.active = {"Outside"}, !.wrappers = @ - 1])
  ELSE RepeatMalformed(v)

handleRepeatCommonPartStartInVoiceClone(v, line) ==
  IF v.active = {"InCommonPart"} THEN RepeatOk(v) ELSE RepeatMalformed(v)

handleRepeatCommonPartEndInVoiceClone(v, line) ==
  IF v.active = {"InCommonPart"} THEN RepeatOk(v) ELSE RepeatMalformed(v)

\* an ending start that leaves the common part active
handleRepeatEndingStart_KeepsCommonPart(v, line, kind, number) ==
  IF "InEnding" \in v.active \/ v.active = {"Outside"}
  THEN RepeatMalformed(v)
  ELSE RepeatOk([v EXCEPT !.active = @ \cup {"InEnding"},
                          !.number = number, !.kind = kind])

handleRepeatEndingStartInVoiceClone(v, line, kind, number) ==
  IF v.active = {"InCommonPart"}
  THEN RepeatOk([v EXCEPT !.active = {"InEnding"},
                          !.number = number, !.kind = kind])
  ELSE RepeatMalformed(v)

handleRepeatEndingEndInVoiceClone(v, line, number, kind) ==
  IF v.active = {"InEnding"}
  THEN RepeatOk([v EXCEPT !.active = {"InCommonPart"},
                          !.number = "none", !.kind = "none"])
  ELSE RepeatMalformed(v)

(***************************************************************************)
(* msr2LpsrTranslator: repeats.  Each handler hands the event to the       *)
(* current voice clone.                                                    *)
(***************************************************************************)
visitStart_Repeat(v, elt) == handleRepeatStartInVoiceClone(v, elt.line)

\* variant: the end of the repeat is handed over as the end of its common part
visitEnd_Repeat_AsCommonPartEnd(v, elt) ==
  handleRepeatCommonPartEndInVoiceClone(v, elt.line)

visitEnd_Repeat(v, elt) == handleRepeatEndInVoiceClone(v, elt.line)

visitStart_RepeatCommonPart(v, elt) ==
  handleRepeatCommonPartStartInVoiceClone(v, elt.line)

visitEnd_RepeatCommonPart(v, elt) ==
  handleRepeatCommonPartEndInVoiceClone(v, elt.line)

\* a visitStart that hands only the first ending to the voice clone
visitStart_RepeatEnding_FirstOnly(v, elt) ==
  IF elt.attr = "1"
  THEN handleRepeatEndingStartInVoiceClone(v, elt.line, elt.sub, elt.attr)
  ELSE RepeatOk(v)

\* elt.sub is the repeat ending kind, elt.attr the repeat ending number
visitStart_RepeatEnding(v, elt) ==
  handleRepeatEndingStartInVoiceClone(v, elt.line, elt.sub, elt.attr)

visitEnd_RepeatEnding(v, elt) ==
  handleRepeatEndingEndInVoiceClone(v, elt.line, elt.attr, elt.sub)

\* the calls of a repeat handler: the event is a call on the current voice
\* clone, in which malformed nesting is a fatal error
Repeat_effects(t, elt, r) ==
  IF t.fCurrentVoiceClone = Null THEN <<Crash>>
  ELSE IF r.ok THEN <<Call(t.fCurrentVoiceClone, Null)>>
  ELSE <<msrInternalError(elt.line)>>

(***************************************************************************)
(* The browser: it enters the elements of the MSR depth first and leaves   *)
(* each element after its children, calling visitStart when it enters and  *)
(* visitEnd when it leaves.  The element of rank n is on input line n.     *)
(***************************************************************************)
InputLine(n) == n

Elt(kind, sub, attr, n, t) ==
  [kind |-> kind, id |-> n, line |-> InputLine(n), sub |-> sub, attr |-> attr,
   snap |-> Snapshot(t)]

Top == visited[Len(visited)]

\* the kinds of elements an element of kind k owns
Owns(k) ==
  CASE k = "Score" -> {"Identification", "PartGroup"}
    [] k = "PartGroup" -> {"PartGroup", "Part"}
    [] k = "Identification" -> {"VarValAssoc"}
    [] k = "Part" -> {"Staff"}
    [] k = "Staff" -> {"Voice", "StaffDetails"}
    [] k = "Voice" ->
         {"Stanza", "Segment", "Note", "Chord", "Tuplet", "DoubleTremolo"}
    [] k = "Segment" -> {"Measure"}
    [] k = "Note" ->
         {"GraceNotesGroup", "Articulation", "Dynamics", "Words", "Spanner",
          "Glissando", "Ornament", "Technical", "Wedge", "Slur"}
    [] k = "GraceNotesGroup" -> {"Note", "Chord"}
    [] k = "Chord" ->
         {"Note", "Articulation", "Dynamics", "Words", "Spanner",
          "Glissando", "Ornament", "Technical", "Wedge", "Slur"}
    [] k = "Tuplet" -> {"Note", "Chord", "Tuplet"}
    [] k = "DoubleTremolo" -> {"Note", "Chord"}
    [] OTHER -> {}

ParentKind == IF visited = << >> THEN "Score" ELSE Top.kind

\* the browser enters elt: visitStart runs the effects es and sets the fields t
Enter(elt, es, t) ==
  /\ status = "running"
  /\ elt.kind \in Owns(ParentKind)
  /\ visited' = Append(visited, elt)
  /\ nextElt' = nextElt + 1
  /\ lastClosed' = lastClosed
  /\ Apply(es, t)
  /\ UNCHANGED <<voiceRepeat, lastCall>>
  /\ UNCHANGED <<guidoVars, lpsrVars, resultVars>>

\* the browser leaves the element on top: visitEnd runs es and sets the fields t
Leave(kind, es, t) ==
  /\ status = "running"
  /\ visited # << >>
  /\ Top.kind = kind
  /\ visited' = SubSeq(visited, 1, Len(visited) - 1)
  /\ nextElt' = nextElt
  /\ Apply(es, t)
  /\ lastClosed' =
       [kind |-> Top.kind, sub |-> Top.sub, id |-> Top.id, line |-> Top.line,
        before |-> Top.snap, pre |-> Snapshot(tr), after |-> Snapshot(tr')]
  /\ UNCHANGED <<voiceRepeat, lastCall>>
  /\ UNCHANGED <<guidoVars, lpsrVars, resultVars>>

(***************************************************************************)
(* The visit of the contents of a voice.  It starts in the state the       *)
(* translator is in when it has entered part group 1, part 2, regular      *)
(* staff 3 and regular voice 4.                                            *)
(***************************************************************************)

InVoice_pg == Elt("PartGroup", "none", "none", 1, TranslatorInit)
InVoice_t1 == visitStart_PartGroup(TranslatorInit, InVoice_pg)
InVoice_part == Elt("Part", "none", "abbreviation", 2, InVoice_t1)
InVoice_t2 == visitStart_Part(InVoice_t1, InVoice_part)
InVoice_staff == Elt("Staff", "kStaffRegular", "none", 3, InVoice_t2)
InVoice_t3 == visitStart_Staff(InVoice_t2, InVoice_staff)
InVoice_voice == Elt("Voice", "kRegularVoice", "musicInserted", 4, InVoice_t3)
InVoice_t4 == visitStart_Voice(InVoice_t3, InVoice_voice)
InVoice_calls ==
  Calls(visitStart_Part_effects(InVoice_t1, InVoice_part))
  \cup Calls(visitStart_Staff_effects(InVoice_t2, InVoice_staff))
  \cup Calls(visitStart_Voice_effects(InVoice_t3, InVoice_voice))

InVoice_visited == <<InVoice_pg, InVoice_part, InVoice_staff, InVoice_voice>>

FirstContentElt == Len(InVoice_visited) + 1

InVoice ==
  /\ tr = InVoice_t4
  /\ visited = InVoice_visited
  /\ nextElt = FirstContentElt
  /\ mutated = {c.recv : c \in InVoice_calls}
  /\ links = {<<c.recv, c.arg>> : c \in InVoice_calls}
  /\ status = "running"
  /\ fatalLine = NoLine
  /\ lastClosed = NoneClosed
  /\ voiceRepeat = VoiceRepeatInit
  /\ lastCall = NoCall

MayEnterContent ==
  /\ nextElt < FirstContentElt + MaxElts
  /\ Len(visited) < Len(InVoice_visited) + MaxDepth

DoubleTremoloPositions == {"first", "second", "none"}

VisitStartNote ==
  /\ MayEnterContent
  /\ \E k \in NoteKinds :
       \E a \in (IF k = "kDoubleTremoloMemberNote"
                 THEN DoubleTremoloPositions ELSE {"none"}) :
         LET elt == Elt("Note", k, a, nextElt, tr)
         IN Enter(elt, << >>, visitStart_Note(tr, elt))

VisitEndNote ==
  /\ visited # << >>
  /\ Leave("Note", visitEnd_Note_effects(tr, Top), visitEnd_Note(tr, Top))

VisitStartChord ==
  /\ MayEnterContent
  /\ \E a \in (IF ParentKind = "DoubleTremolo"
                THEN DoubleTremoloPositions ELSE {"none"}) :
       LET elt == Elt("Chord", "none", a, nextElt, tr)
       IN Enter(elt, visitStart_Chord_effects(tr, elt), visitStart_Chord(tr, elt))

VisitEndChord ==
  /\ visited # << >>
  /\ Leave("Chord", << >>, visitEnd_Chord(tr, Top))

VisitStartTuplet ==
  /\ MayEnterContent
  /\ LET elt == Elt("Tuplet", "none", "none", nextElt, tr)
     IN Enter(elt, << >>, visitStart_Tuplet(tr, elt))

VisitEndTuplet ==
  /\ visited # << >>
  /\ Leave("Tuplet", visitEnd_Tuplet_effects(tr, Top), visitEnd_Tuplet(tr, Top))

VisitStartDoubleTremolo ==
  /\ MayEnterContent
  /\ LET elt == Elt("DoubleTremolo", "none", "none", nextElt, tr)
     IN Enter(elt, << >>, visitStart_DoubleTremolo(tr, elt))

VisitEndDoubleTremolo ==
  /\ visited # << >>
  /\ Leave("DoubleTremolo", visitEnd_DoubleTremolo_effects(tr, Top),
           visitEnd_DoubleTremolo(tr, Top))

\* is the note that owns the group the first non grace note of its voice
AttachedTo(t, note) ==
  IF /\ note.kind = "Note"
     /\ note.sub \notin GraceNoteKinds
     /\ t.fFirstNoteCloneInVoice = CloneOf(note)
  THEN "attachedToFirstNote" ELSE "attachedToOtherNote"

VisitStartGraceNotesGroup ==
  /\ MayEnterContent
  /\ \E u \in {"noteUplink", "noNoteUplink"} :
       LET elt == Elt("GraceNotesGroup", u, AttachedTo(tr, Top), nextElt, tr)
       IN Enter(elt, visitStart_GraceNotesGroup_effects(tr, elt),
                visitStart_GraceNotesGroup(tr, elt))

VisitEndGraceNotesGroup ==
  /\ visited # << >>
  /\ Leave("GraceNotesGroup", << >>, visitEnd_GraceNotesGroup(tr, Top))

Init == InVoice /\ GuidoIdle /\ LpsrIdle

Next ==
  \/ VisitStartNote
  \/ VisitEndNote
  \/ VisitStartChord
  \/ VisitEndChord
  \/ VisitStartTuplet
  \/ VisitEndTuplet
  \/ VisitStartDoubleTremolo
  \/ VisitEndDoubleTremolo
  \/ VisitStartGraceNotesGroup
  \/ VisitEndGraceNotesGroup

vars == <<trVars, guidoVars, lpsrVars, resultVars>>

Spec == Init /\ [][Next]_vars

(***************************************************************************)
(* Properties of the visit of the contents of a voice                      *)
(***************************************************************************)
OpenTuplets == {i \in 1..Len(visited) : visited[i].kind = "Tuplet"}

\* C1: during the MSR->LPSR pass no setter or append operation has a visited
\* (canonical) element as its receiver; in particular a visited double
\* tremolo is not modified when its member notes or chords are visited.
C1_CanonicalNeverMutated == \A x \in mutated : ~IsCanonical(x)

\* C2: no canonical MSR element is inserted as a child into the clone tree:
\* every element appended to a voice clone, a staff clone or a tuplet clone is
\* an object created by this pass.
C2_NoCanonicalChildInCloneTree ==
  \A l \in links : IsClone(l[1]) => ~IsCanonical(l[2])

\* C4: in a well-nested sequence of tuplet visitStart/visitEnd events the
\* tuplet stack is empty after the visitEnd of the outermost tuplet, i.e.
\* whenever no tuplet is being visited.
C4_TupletStackEmptyAfterOutermostEnd ==
  (status = "running" /\ OpenTuplets = {}) => tr.fTupletClonesStack = << >>

\* an outermost tuplet that holds a nested tuplet has just been left
C4_Witness ==
  /\ status = "running"
  /\ lastClosed.kind = "Tuplet"
  /\ lastClosed.before.tuplets = 0
  /\ lastClosed.pre.tuplets = 1
  /\ OpenTuplets = {}
  /\ \E l \in links : l[1].kind = "Tuplet" /\ l[2].kind = "Tuplet"

\* C7: a note of kind chord member, grace or double tremolo member that is
\* closed while the chord, grace notes group or double tremolo is not on-going
\* raises a fatal internal error carrying the input line number of the note,
\* and the note is not attached to any container.
ClosedOutsideItsScope ==
  /\ lastClosed.kind = "Note"
  /\ \/ lastClosed.sub \in {"kChordMemberNote", "kGraceChordMemberNote"}
        /\ ~lastClosed.pre.chord
     \/ lastClosed.sub = "kGraceNote" /\ ~lastClosed.pre.graceNotes
     \/ lastClosed.sub = "kDoubleTremoloMemberNote" /\ ~lastClosed.pre.tremolo

C7_MemberNoteOutsideScopeIsFatal ==
  ClosedOutsideItsScope =>
    /\ status = "fatal"
    /\ fatalLine = lastClosed.line
    /\ \A l \in links : ~(l[2].kind = "Note" /\ l[2].id = lastClosed.id)

(***************************************************************************)
(* The visit of the structure of a score: part groups, parts, staves,      *)
(* staff details, voices and stanzas, from the translator as constructed.  *)
(***************************************************************************)
MaxStructElts == 5     \* structure elements entered in one run

ConstructedTranslator ==
  /\ tr = TranslatorInit
  /\ visited = << >>
  /\ nextElt = 1
  /\ mutated = {}
  /\ links = {}
  /\ status = "running"
  /\ fatalLine = NoLine
  /\ lastClosed = NoneClosed
  /\ voiceRepeat = VoiceRepeatInit
  /\ lastCall = NoCall

MayEnterStruct == nextElt <= MaxStructElts

VisitStartPartGroup ==
  /\ MayEnterStruct
  /\ LET elt == Elt("PartGroup", "none", "none", nextElt, tr)
     IN Enter(elt, << >>, visitStart_PartGroup(tr, elt))

VisitEndPartGroup ==
  /\ visited # << >>
  /\ Leave("PartGroup", visitEnd_PartGroup_effects(tr, Top),
           visitEnd_PartGroup(tr, Top))

VisitStartPart ==
  /\ MayEnterStruct
  /\ \E a \in {"abbreviation", "noAbbreviation"} :
       LET elt == Elt("Part", "none", a, nextElt, tr)
       IN Enter(elt, visitStart_Part_effects(tr, elt), visitStart_Part(tr, elt))

VisitEndPart ==
  /\ visited # << >>
  /\ Leave("Part", visitEnd_Part_effects(tr, Top), visitEnd_Part(tr, Top))

VisitStartStaff ==
  /\ MayEnterStruct
  /\ \E k \in StaffKinds :
       LET elt == Elt("Staff", k, "none", nextElt, tr)
       IN Enter(elt, visitStart_Staff_effects(tr, elt), visitStart_Staff(tr, elt))

VisitEndStaff ==
  /\ visited # << >>
  /\ Leave("Staff", << >>, visitEnd_Staff(tr, Top))

VisitStartStaffDetails ==
  /\ MayEnterStruct
  /\ LET elt == Elt("StaffDetails", "none", "none", nextElt, tr)
     IN Enter(elt, << >>, visitStart_StaffDetails(tr, elt))

VisitEndStaffDetails ==
  /\ visited # << >>
  /\ Leave("StaffDetails", visitEnd_StaffDetails_effects(tr, Top), tr)

VisitStartVoice ==
  /\ MayEnterStruct
  /\ \E k \in VoiceKinds : \E a \in {"musicInserted", "noMusic"} :
       LET elt == Elt("Voice", k, a, nextElt, tr)
       IN Enter(elt, visitStart_Voice_effects(tr, elt), visitStart_Voice(tr, elt))

VisitEndVoice ==
  /\ visited # << >>
  /\ Leave("Voice", << >>, visitEnd_Voice(tr, Top))

VisitStartStanza ==
  /\ MayEnterStruct
  /\ LET elt == Elt("Stanza", "none", "none", nextElt, tr)
     IN Enter(elt, visitStart_Stanza_effects(tr, elt), visitStart_Stanza(tr, elt))

VisitEndStanza ==
  /\ visited # << >>
  /\ Leave("Stanza", << >>, visitEnd_Stanza(tr, Top))

NextStruct ==
  \/ VisitStartPartGroup
  \/ VisitEndPartGroup
  \/ VisitStartPart
  \/ VisitEndPart
  \/ VisitStartStaff
  \/ VisitEndStaff
  \/ VisitStartStaffDetails
  \/ VisitEndStaffDetails
  \/ VisitStartVoice
  \/ VisitEndVoice
  \/ VisitStartStanza
  \/ VisitEndStanza

InitStruct == ConstructedTranslator /\ GuidoIdle /\ LpsrIdle

SpecStruct == InitStruct /\ [][NextStruct]_vars

\* the state the visit of the contents of a voice starts in is reached
InVoiceReached == InVoice

\* C3: for every element whose visitStart pushes onto the tuplet or part
\* group stack or sets an on-going flag, after the matching visitEnd the stack
\* depth and the flag have the values they had immediately before that
\* visitStart.
C3_ScopeStateRestored ==
  status = "running" =>
    /\ lastClosed.kind = "Tuplet" =>
         lastClosed.after.tuplets = lastClosed.before.tuplets
    /\ lastClosed.kind = "PartGroup" =>
         lastClosed.after.partGroups = lastClosed.before.partGroups
    /\ lastClosed.kind = "Note" => lastClosed.after.note = lastClosed.before.note
    /\ lastClosed.kind = "Chord" => lastClosed.after.chord = lastClosed.before.chord
    /\ lastClosed.kind = "Staff" => lastClosed.after.staff = lastClosed.before.staff
    /\ lastClosed.kind = "GraceNotesGroup" =>
         lastClosed.after.graceNotes = lastClosed.before.graceNotes
    /\ lastClosed.kind = "DoubleTremolo" =>
         lastClosed.after.tremolo = lastClosed.before.tremolo
    /\ lastClosed.kind = "Voice" =>
         /\ lastClosed.after.harmonyVoice = lastClosed.before.harmonyVoice
         /\ lastClosed.after.figuredBassVoice = lastClosed.before.figuredBassVoice
    /\ lastClosed.kind = "Stanza" =>
         lastClosed.after.stanza = lastClosed.before.stanza

(***************************************************************************)
(* The tuplet and repeat handlers called in any order on the translator    *)
(* that is visiting a voice: every handler is a public method that a       *)
(* caller may invoke whatever was invoked before.                          *)
(***************************************************************************)
MaxCalls == 5     \* handler calls in one run

MayCall ==
  /\ status = "running"
  /\ nextElt < FirstContentElt + MaxCalls

\* visitStart or visitEnd (op) of elt runs the effects es, sets the fields t
\* and leaves the voice in the repeat state v
Called(op, elt, es, t, v) ==
  /\ nextElt' = nextElt + 1
  /\ visited' = visited
  /\ Apply(es, t)
  /\ voiceRepeat' = IF status' = "running" THEN v ELSE voiceRepeat
  /\ lastCall' = [op |-> op, kind |-> elt.kind, line |-> elt.line,
                  active |-> voiceRepeat.active]
  /\ UNCHANGED <<guidoVars, lpsrVars, resultVars>>
  /\ lastClosed' =
       IF op = "visitEnd"
       THEN [kind |-> elt.kind, sub |-> elt.sub, id |-> elt.id,
             line |-> elt.line, before |-> Snapshot(tr),
             pre |-> Snapshot(tr), after |-> Snapshot(tr')]
       ELSE lastClosed

CallVisitStartTuplet ==
  /\ MayCall
  /\ LET elt == Elt("Tuplet", "none", "none", nextElt, tr)
     IN Called("visitStart", elt, << >>, visitStart_Tuplet(tr, elt), voiceRepeat)

CallVisitEndTuplet ==
  /\ MayCall
  /\ LET elt == Elt("Tuplet", "none", "none", nextElt, tr)
     IN Called("visitEnd", elt, visitEnd_Tuplet_effects(tr, elt),
               visitEnd_Tuplet(tr, elt), voiceRepeat)

CallVisitStartRepeat ==
  /\ MayCall
  /\ LET elt == Elt("Repeat", "none", "none", nextElt, tr)
         r == visitStart_Repeat(voiceRepeat, elt)
     IN Called("visitStart", elt, Repeat_effects(tr, elt, r), tr, r.v)

CallVisitEndRepeat ==
  /\ MayCall
  /\ LET elt == Elt("Repeat", "none", "none", nextElt, tr)
         r == visitEnd_Repeat(voiceRepeat, elt)
     IN Called("visitEnd", elt, Repeat_effects(tr, elt, r), tr, r.v)

CallVisitStartRepeatCommonPart ==
  /\ MayCall
  /\ LET elt == Elt("RepeatCommonPart", "none", "none", nextElt, tr)
         r == visitStart_RepeatCommonPart(voiceRepeat, elt)
     IN Called("visitStart", elt, Repeat_effects(tr, elt, r), tr, r.v)

CallVisitEndRepeatCommonPart ==
  /\ MayCall
  /\ LET elt == Elt("RepeatCommonPart", "none", "none", nextElt, tr)
         r == visitEnd_RepeatCommonPart(voiceRepeat, elt)
     IN Called("visitEnd", elt, Repeat_effects(tr, elt, r), tr, r.v)

RepeatEndingKinds == {"kHookedEnding", "kHooklessEnding"}
RepeatEndingNumbers == {"1", "2"}

CallVisitStartRepeatEnding ==
  /\ MayCall
  /\ \E k \in RepeatEndingKinds : \E n \in RepeatEndingNumbers :
       LET elt == Elt("RepeatEnding", k, n, nextElt, tr)
           r == visitStart_RepeatEnding(voiceRepeat, elt)
       IN Called("visitStart", elt, Repeat_effects(tr, elt, r), tr, r.v)

CallVisitEndRepeatEnding ==
  /\ MayCall
  /\ \E k \in RepeatEndingKinds : \E n \in RepeatEndingNumbers :
       LET elt == Elt("RepeatEnding", k, n, nextElt, tr)
           r == visitEnd_RepeatEnding(voiceRepeat, elt)
       IN Called("visitEnd", elt, Repeat_effects(tr, elt, r), tr, r.v)

NextCalls ==
  \/ CallVisitStartTuplet
  \/ CallVisitEndTuplet
  \/ CallVisitStartRepeat
  \/ CallVisitEndRepeat
  \/ CallVisitStartRepeatCommonPart
  \/ CallVisitEndRepeatCommonPart
  \/ CallVisitStartRepeatEnding
  \/ CallVisitEndRepeatEnding

SpecCalls == Init /\ [][NextCalls]_vars

\* C5: a tuplet end that occurs while the tuplet stack is empty is reported
\* as a fatal error, and the stack is not popped.
C5_TupletEndOnEmptyStackIsFatal ==
  (lastClosed.kind = "Tuplet" /\ lastClosed.pre.tuplets = 0) =>
    (status = "fatal" /\ fatalLine = lastClosed.line)

\* C8: in a voice at most one of the repeat states Outside, InCommonPart,
\* InEnding is active at any time while repeat start, common part, ending and
\* end events are handled.
C8_AtMostOneRepeatStateActive == Cardinality(voiceRepeat.active) <= 1

\* an ending has been entered from the common part of a repeat
C8_Witness ==
  /\ status = "running"
  /\ lastCall.op = "visitStart"
  /\ lastCall.kind = "RepeatEnding"
  /\ lastCall.active = {"InCommonPart"}
  /\ voiceRepeat.active = {"InEnding"}

\* C9: a repeat ending start event received while the voice is already in
\* state InEnding is a fatal error.
C9_EndingStartInEndingIsFatal ==
  (lastCall.op = "visitStart" /\ lastCall.kind = "RepeatEnding"
     /\ "InEnding" \in lastCall.active)
  => (status = "fatal" /\ fatalLine = lastCall.line)

\* an ending start was received in state InEnding, and was fatal
C9_Witness ==
  /\ lastCall.op = "visitStart"
  /\ lastCall.kind = "RepeatEnding"
  /\ "InEnding" \in lastCall.active
  /\ status = "fatal"

(***************************************************************************)
(* The time signatures of the xml2guidovisitor.  A rational is the pair of *)
(* its numerator and denominator as the class keeps them; set does not     *)
(* reduce it, or the tests on 2/2 and 4/4 of parseTime could never hold.   *)
(***************************************************************************)
MaxPairs == 2

\* strtol (text, 0, 10) on the texts of the beats and beat-type elements
strtol(text) ==
  CASE text = "2" -> 2
    [] text = "3" -> 3
    [] text = "4" -> 4
    [] text = "8" -> 8
    [] OTHER -> 0

\* rational::operator +=
RationalPlus(r, dur) ==
  IF r[2] = dur[2] THEN <<r[1] + dur[1], r[2]>>
  ELSE <<r[1] * dur[2] + dur[1] * r[2], r[2] * dur[2]>>

\* rational::operator string
RationalString(r) == ToString(r[1]) \o "/" \o ToString(r[2])

\* rational ts (0,1), set to the pair of rank index when there is one and
\* neither number is 0
PairRational(fTimeSignInternal, index) ==
  IF index <= Len(fTimeSignInternal)
  THEN LET num == strtol(fTimeSignInternal[index][1])
           denum == strtol(fTimeSignInternal[index][2])
       IN  IF num # 0 /\ denum # 0 THEN <<num, denum>> ELSE <<0, 1>>
  ELSE <<0, 1>>

commonTimeSign_AlwaysC(fTimeSignInternal) ==
  [timesign |-> "C", fCurrentTimeSign |-> PairRational(fTimeSignInternal, 1)]

\* the branch of the symbol common
commonTimeSign(fTimeSignInternal) ==
  LET ts == PairRational(fTimeSignInternal, 1)
  IN  [timesign |-> IF ts = <<2, 2>> THEN "C/"
                    ELSE IF ts = <<4, 4>> THEN "C"
                    ELSE RationalString(ts),
       fCurrentTimeSign |-> ts]

addPair_Replacing(fTimeSignInternal, i, acc) ==
  [timesign |-> fTimeSignInternal[i][1] \o "/" \o fTimeSignInternal[i][2],
   fCurrentTimeSign |-> PairRational(fTimeSignInternal, i)]

\* one turn of the loop of the other symbols: the pair of rank i is added
\* to the text and to the rational accumulated so far
addPair(fTimeSignInternal, i, acc) ==
  [timesign |-> acc.timesign \o (IF i = 1 THEN "" ELSE "+")
                  \o fTimeSignInternal[i][1] \o "/"
                  \o fTimeSignInternal[i][2],
   fCurrentTimeSign |-> RationalPlus(acc.fCurrentTimeSign,
                                     PairRational(fTimeSignInternal, i))]

\* the branch of the other symbols: the loop on the pairs from rank i
RECURSIVE otherTimeSign(_, _, _)
otherTimeSign(fTimeSignInternal, i, acc) ==
  IF i > Len(fTimeSignInternal) THEN acc
  ELSE otherTimeSign(fTimeSignInternal, i + 1,
                     addPair(fTimeSignInternal, i, acc))

\* the text and the local rational fCurrentTimeSign of parseTime
TimeSign(iter) ==
  IF iter.senzamesura
  THEN [timesign |-> "", fCurrentTimeSign |-> <<0, 1>>]
  ELSE IF iter.symbol = "common" THEN commonTimeSign(iter.pairs)
  ELSE IF iter.symbol = "cut"
  THEN [timesign |-> "C/", fCurrentTimeSign |-> <<2, 2>>]
  ELSE otherTimeSign(iter.pairs, 1,
                     [timesign |-> "", fCurrentTimeSign |-> <<0, 1>>])

(***************************************************************************)
(* xml2guidovisitor: the visit of a part.  The partsummary of the part     *)
(* gives its voices in the order they are iterated, the main staff of each *)
(* voice and the number of staves of the part.                             *)
(***************************************************************************)
MaxParts == 2      \* parts of a score
MaxVoices == 3     \* voices of a part
MaxStaves == 2     \* staves of a part

StaffTag(index, by, mainstaff) ==
  [tag |-> "staff", index |-> index, by |-> by, mainstaff |-> mainstaff,
   lo |-> 0, hi |-> 0]

AccolTag(id, rangeBegin, rangeEnd) ==
  [tag |-> "accol", index |-> id, by |-> "voice", mainstaff |-> 0,
   lo |-> rangeBegin, hi |-> rangeEnd]

\* the accol tag of the bracket of a part group
GroupAccolTag(rangeStart, rangeEnd) ==
  [tag |-> "accol", index |-> 1, by |-> "partGroup", mainstaff |-> 0,
   lo |-> rangeStart, hi |-> rangeEnd]

\* the barFormat tag of style "system" over the staves lo to hi
BarFormatTag(by, rangeBegin, rangeEnd) ==
  [tag |-> "barFormat", style |-> "system", by |-> by,
   lo |-> rangeBegin, hi |-> rangeEnd]

Min(a, b) == IF a < b THEN a ELSE b

\* createStaff: a sequence with the staff tag of staffIndex
createStaff(out, staffIndex) ==
  Append(out, StaffTag(staffIndex, "createStaff", 0))

\* while (fCurrentStaffIndex < limit) { createStaff; fCurrentStaffIndex++ }
RECURSIVE CreateIntermediateStaves(_, _)
CreateIntermediateStaves(g, limit) ==
  IF g.fCurrentStaffIndex < limit
  THEN CreateIntermediateStaves(
         [g EXCEPT !.out = createStaff(@, g.fCurrentStaffIndex),
                   !.fCurrentStaffIndex = @ + 1], limit)
  ELSE g

\* the staff of the voice whose main staff is mainstaff
VoiceStaff(g, mainstaff) ==
  IF g.targetStaff = -1
  THEN CreateIntermediateStaves(
         [g EXCEPT !.notesOnly = FALSE, !.targetStaff = mainstaff,
                   !.fCurrentStaffIndex = @ + 1],
         mainstaff + g.fCurrentPartStaffOffset)
  ELSE IF g.targetStaff = mainstaff
  THEN [g EXCEPT !.notesOnly = TRUE]
  ELSE CreateIntermediateStaves(
         [g EXCEPT !.notesOnly = FALSE, !.targetStaff = mainstaff,
                   !.fCurrentStaffIndex =
                      IF mainstaff > g.targetStaff THEN @ + 1 ELSE @],
         mainstaff + g.fCurrentPartStaffOffset)

\* partlistvisitor::find_first_of_partID_inGroup: the rank of the first
\* group not yet visited that holds the part, 0 when there is none
find_first_of_partID_inGroup(groups, partID) ==
  LET found == {k \in DOMAIN groups :
                  ~ groups[k].visited /\ partID \in groups[k].partIDs}
  IN IF found = {} THEN 0
     ELSE CHOOSE k \in found : \A j \in found : k <= j

\* flushPartGroup: the accol tag of the bracket and the barFormat tag of the
\* barline grouping of the group of the part, over the staves from the
\* current one; the group is not found again
flushPartGroup(g, partID) ==
  LET k == find_first_of_partID_inGroup(g.fPartGroups, partID)
  IN IF k # 0 /\ g.fPartGroups[k].guidoRange # ""
     THEN LET partGroupIt == g.fPartGroups[k]
              rangeStart == g.fCurrentStaffIndex
              rangeEnd == rangeStart + (partGroupIt.guidoRangeStop
                                        - partGroupIt.guidoRangeStart)
          IN [g EXCEPT
                !.out = @ \o (IF partGroupIt.bracket
                              THEN <<GroupAccolTag(rangeStart, rangeEnd)>>
                              ELSE << >>)
                          \o (IF partGroupIt.barlineGrouping
                              THEN <<BarFormatTag("partGroup", rangeStart,
                                                  rangeEnd)>>
                              ELSE << >>),
                !.fPartGroups[k].visited = TRUE]
     ELSE g

\* the accolade of a part of several staves, when the voice enters its
\* span: the accol tag and the barFormat tag over the staves of the part.
\* The barFormat tag of a lone staff, which checkLonelyBarFormat decides in
\* the other branch, is not in the output of the model.
VoiceAccolade(g, countStaves) ==
  IF countStaves > 1 /\ g.fCurrentStaffIndex > g.fCurrentAccoladeIndex
  THEN LET rangeBegin == Min(g.fCurrentStaffIndex,
                             g.fCurrentPartStaffOffset + 1)
           rangeEnd == g.fCurrentPartStaffOffset + countStaves
       IN [g EXCEPT !.out = @ \o <<AccolTag(g.fCurrentAccoladeIndex,
                                            rangeBegin, rangeEnd),
                                   BarFormatTag("voice", rangeBegin,
                                                rangeEnd)>>,
                    !.fCurrentAccoladeIndex = rangeEnd]
  ELSE g

\* a note of the measure of this rank, its duration in quarter notes
NoteEvent(measure, duration) ==
  [tag |-> "note", measure |-> measure, duration |-> duration]

RECURSIVE SumSeq(_)
SumSeq(durations) ==
  IF durations = << >> THEN 0
  ELSE Head(durations) + SumSeq(Tail(durations))

RECURSIVE NoteEvents(_, _)
NoteEvents(measures, m) ==
  IF m > Len(measures) THEN << >>
  ELSE [i \in DOMAIN measures[m] |-> NoteEvent(m, measures[m][i])]
         \o NoteEvents(measures, m + 1)

\* the browse of the part by a xmlpart2guido: the meter tag of the time
\* element of the part, then the note events of each measure in turn; the
\* duration of the part is the sum of the durations of its notes
xmlpart2guido(ps) ==
  [out |-> (IF ps.time.pairs # << >>
            THEN <<[tag |-> "meter", params |-> <<TimeSign(ps.time).timesign>>]>>
            ELSE << >>)
           \o NoteEvents(ps.measures, 1),
   totalPartDuration |->
     SumSeq([m \in DOMAIN ps.measures |-> SumSeq(ps.measures[m])])]

VoiceTurn_NoEndBar(g, mainstaff, ps) ==
  LET g1 == VoiceStaff(g, mainstaff)
      g2 == [g1 EXCEPT !.out = Append(@, StaffTag(g1.fCurrentStaffIndex,
                                                  "voice", mainstaff))]
      g3 == VoiceAccolade(flushPartGroup(g2, g2.currentPart), ps.countStaves)
      pv == xmlpart2guido(ps)
  IN [g3 EXCEPT !.out = @ \o pv.out,
                !.fTotalDuration = IF pv.totalPartDuration > @
                                   THEN pv.totalPartDuration ELSE @]

\* one turn of the loop on the voices: the staff of the voice, its staff
\* tag, the accolade, the notes of the voice, the closing staff tag and the
\* endBar tag
VoiceTurn(g, mainstaff, ps) ==
  LET g1 == VoiceStaff(g, mainstaff)
      g2 == [g1 EXCEPT !.out = Append(@, StaffTag(g1.fCurrentStaffIndex,
                                                  "voice", mainstaff))]
      g3 == VoiceAccolade(flushPartGroup(g2, g2.currentPart), ps.countStaves)
      pv == xmlpart2guido(ps)
  IN [g3 EXCEPT !.out = @ \o pv.out
                          \o <<StaffTag(g3.fCurrentStaffIndex, "endBar",
                                        mainstaff),
                               [tag |-> "endBar"]>>,
                !.fTotalDuration = IF pv.totalPartDuration > @
                                   THEN pv.totalPartDuration ELSE @]

RECURSIVE VoicesLoop(_, _, _, _)
VoicesLoop(g, voices, i, ps) ==
  IF i > Len(voices) THEN g
  ELSE VoicesLoop(VoiceTurn(g, voices[i], ps), voices, i + 1, ps)

\* the staves of the part that no voice has as its main staff
RECURSIVE ImplicitStaves(_, _)
ImplicitStaves(g, countStaves) ==
  IF g.fCurrentStaffIndex < g.fCurrentPartStaffOffset + countStaves
  THEN ImplicitStaves(
         [g EXCEPT !.fCurrentStaffIndex = @ + 1,
                   !.out = createStaff(@, g.fCurrentStaffIndex + 1)],
         countStaves)
  ELSE g

\* visitStart (S_part&) on the part "P<id>" with the summary ps; the result
\* holds the fields of the visitor, the locals of the handler and the tags
visitStart_part(v, id, ps) ==
  LET counted == [v EXCEPT !.fPartsAvailable = @ + 1]
      locals == [targetStaff |-> -1, notesOnly |-> FALSE, out |-> << >>,
                 filtered |-> FALSE, currentPart |-> id]
      g0 == [x \in DOMAIN counted \cup DOMAIN locals |->
               IF x \in DOMAIN counted THEN counted[x] ELSE locals[x]]
  IN IF v.fPartNum # 0 /\ id # v.fPartNum
     THEN [g0 EXCEPT !.filtered = TRUE]
     ELSE LET g1 == VoicesLoop(g0, ps.voices, 1, ps)
              g2 == ImplicitStaves(g1, ps.countStaves)
          IN [g2 EXCEPT !.fCurrentPartStaffOffset = @ + ps.countStaves]

StaffNumbers(voices) == {voices[i] : i \in DOMAIN voices}

SeqsUpTo(S, n) == UNION {[1..k -> S] : k \in 1..n}

\* the summaries of a part: each voice has a main staff among the staves of
\* the part
PartSummaries ==
  {[voices |-> vs, countStaves |-> c, time |-> NoTime, measures |-> << >>] :
     vs \in SeqsUpTo(1..MaxStaves, MaxVoices), c \in 1..MaxStaves}

VisitStartPartGuido ==
  /\ guidoPart.id < MaxParts
  /\ \E ps \in PartSummaries :
       /\ \A i \in DOMAIN ps.voices : ps.voices[i] <= ps.countStaves
       /\ LET id == guidoPart.id + 1
              g == visitStart_part(guido, id, ps)
          IN /\ guido' = [x \in DOMAIN guido |-> g[x]]
             /\ guidoPart' = [id |-> id, voices |-> ps.voices,
                              countStaves |-> ps.countStaves,
                              filtered |-> g.filtered,
                              offset |-> guido.fCurrentPartStaffOffset,
                              accolade |-> guido.fCurrentAccoladeIndex,
                              out |-> g.out, time |-> ps.time,
                              measures |-> ps.measures]
  /\ UNCHANGED <<partRun, trVars, lpsrVars, resultVars>>

GuidoConstructed ==
  /\ guido \in {xml2guidovisitor(n) : n \in 0..MaxParts}
  /\ guidoPart = NoPart
  /\ partRun = NotRunning

NextGuido == VisitStartPartGuido

InitGuido == ConstructedTranslator /\ GuidoConstructed /\ LpsrIdle

SpecGuido == InitGuido /\ [][NextGuido]_vars

\* the part groups of the part list of a score of two parts: the parts of
\* the group, its bracket, its barline grouping and the range of its
\* staves, when it is known
PartGroups ==
  {[partIDs |-> ids, bracket |-> b, barlineGrouping |-> bl,
    guidoRange |-> r[1], guidoRangeStart |-> r[2], guidoRangeStop |-> r[3],
    visited |-> FALSE] :
     ids \in {{1}, {1, 2}}, b \in BOOLEAN, bl \in BOOLEAN,
     r \in {<<"", 0, 0>>, <<"1-2", 1, 2>>}}

\* the visitor of all the parts of a score whose part list holds at most
\* one part group
GuidoWithPartList ==
  /\ guido \in {[xml2guidovisitor(0) EXCEPT !.fPartGroups = gs] :
                  gs \in {<< >>} \cup {<<pg>> : pg \in PartGroups}}
  /\ guidoPart = NoPart
  /\ partRun = NotRunning

\* the visit of the first and of the second part of the score
VisitStartPartOfPartList ==
  /\ guidoPart.id < 2
  /\ \E ps \in PartSummaries :
       /\ \A i \in DOMAIN ps.voices : ps.voices[i] <= ps.countStaves
       /\ LET id == guidoPart.id + 1
              g == visitStart_part(guido, id, ps)
          IN /\ guido' = [x \in DOMAIN guido |-> g[x]]
             /\ guidoPart' = [id |-> id, voices |-> ps.voices,
                              countStaves |-> ps.countStaves,
                              filtered |-> g.filtered,
                              offset |-> guido.fCurrentPartStaffOffset,
                              accolade |-> guido.fCurrentAccoladeIndex,
                              out |-> g.out, time |-> ps.time,
                              measures |-> ps.measures]
  /\ UNCHANGED <<partRun, trVars, lpsrVars, resultVars>>

NextAccolade == VisitStartPartOfPartList

InitAccolade == ConstructedTranslator /\ GuidoWithPartList /\ LpsrIdle

SpecAccolade == InitAccolade /\ [][NextAccolade]_vars

StaffIndices(out) ==
  {out[i].index : i \in {j \in DOMAIN out : out[j].tag = "staff"}}

\* C6: for a part whose voices have main staves covering 1..N without gaps,
\* exactly N staves (N distinct staff indices) are created for that part,
\* whatever the order in which the voices are iterated.
C6_ExactlyNStavesWhateverVoiceOrder ==
  (/\ guidoPart.id > 0
   /\ ~ guidoPart.filtered
   /\ StaffNumbers(guidoPart.voices) = 1..guidoPart.countStaves)
  => Cardinality(StaffIndices(guidoPart.out)) = guidoPart.countStaves

(***************************************************************************)
(* Browsing the LPSR score and a harmony.  A browse of a node is the       *)
(* sequence of the acceptIn and acceptOut calls it makes on the visitor.   *)
(***************************************************************************)
MaxAppends == 3     \* elements appended to the score and the harmony

acceptIn(node) == [call |-> "acceptIn", node |-> node]
acceptOut(node) == [call |-> "acceptOut", node |-> node]

\* the keys of the Scheme functions map, as std::map orders them
SchemeFunctionNames == <<"date & time", "tongue">>

SchemeFunction(name) == Node("lpsrSchemeFunction", name)

Field(sc, name) ==
  SelectSeq(sc.fields, LAMBDA n : n.name = name)

Reverse(q) == [i \in 1..Len(q) |-> q[Len(q) + 1 - i]]

RECURSIVE browse(_, _, _)
RECURSIVE BrowseEach(_, _, _)

\* the loop of a browseData on a list: each element is browsed in turn
BrowseEach(nodes, sc, h) ==
  IF nodes = << >> THEN << >>
  ELSE browse(Head(nodes), sc, h) \o BrowseEach(Tail(nodes), sc, h)

lpsrScore_browseData(sc, h) ==
  BrowseEach(
    Field(sc, "fLilyPondVersion")
    \o Field(sc, "fInputSourceNameComment")
    \o Field(sc, "fTranslationDateComment")
    \o Field(sc, "fCommandLineLongOptionsComment")
    \o Field(sc, "fCommandLineShortOptionsComment")
    \o Field(sc, "fGlobalStaffSizeAssoc")
    \o [i \in 1..Len(SelectSeq(SchemeFunctionNames,
                      LAMBDA k : k \in sc.fScoreSchemeFunctionsMap)) |->
          SchemeFunction(SelectSeq(SchemeFunctionNames,
                      LAMBDA k : k \in sc.fScoreSchemeFunctionsMap)[i])]
    \o Field(sc, "fHeader")
    \o Field(sc, "fPaper")
    \o Field(sc, "fScoreLayout")
    \o Field(sc, "fMyBreakIsBreakAssoc")
    \o Field(sc, "fMyBreakIsEmptyAssoc")
    \o Field(sc, "fGlobalAssoc")
    \o sc.fScoreElements
    \o Field(sc, "fScoreBlock"),
    sc, h)

lpsrScoreBlock_browseData(sc, h) ==
  BrowseEach(
    << Node("lpsrParallelMusic", "fScoreBlockParallelMusic"),
       Node("lpsrLayout", "fScoreBlockLayout"),
       Node("msrMidi", "fScoreBlockMidi") >>,
    sc, h)

\* a browseData that walks the elements from the last to the first
lpsrParallelMusic_browseData_Backwards(sc, h) ==
  BrowseEach(Reverse(sc.fParallelMusicElements), sc, h)

lpsrParallelMusic_browseData(sc, h) ==
  BrowseEach(sc.fParallelMusicElements, sc, h)

msrHarmony_browseData(sc, h) ==
  IF Len(h.fHarmonyDegreesList) # 0
  THEN BrowseEach(h.fHarmonyDegreesList, sc, h)
  ELSE << >>

\* the browseData of a node; the data of the other classes is not browsed
\* further here
browseData(node, sc, h) ==
  CASE node.kind = "lpsrScore" -> lpsrScore_browseData(sc, h)
    [] node.kind = "lpsrScoreBlock" -> lpsrScoreBlock_browseData(sc, h)
    [] node.kind = "lpsrParallelMusic" -> lpsrParallelMusic_browseData(sc, h)
    [] node.kind = "msrHarmony" -> msrHarmony_browseData(sc, h)
    [] OTHER -> << >>

\* msrBrowser::browse: enter, browseData, leave
browse(node, sc, h) ==
  <<acceptIn(node)>> \o browseData(node, sc, h) \o <<acceptOut(node)>>

TheScore == Node("lpsrScore", "score")
TheHarmony == Node("msrHarmony", "harmony")

Names(q) == {q[i].name : i \in DOMAIN q}

\* lpsrScore::setTongueSchemeFunctionNeeded, with addTongueSchemeFunctionToScore
setTongueSchemeFunctionNeeded(sc) ==
  IF ~ sc.fTongueSchemeFunctionNeeded
  THEN [sc EXCEPT !.fScoreSchemeFunctionsMap = @ \cup {"tongue"},
                  !.schemeFunctionsInserted =
                     IF "tongue" \in sc.fScoreSchemeFunctionsMap
                     THEN @ ELSE Append(@, "tongue"),
                  !.fTongueSchemeFunctionNeeded = TRUE]
  ELSE sc

\* lpsrParallelMusic::addElementToParallelMusic
addElementToParallelMusic(sc, elem) ==
  [sc EXCEPT !.fParallelMusicElements = Append(@, elem)]

\* lpsrScore::appendVoiceUseToStoreCommand creates the use of the voice and
\* hands it to lpsrScoreBlock::appendVoiceUseToParallelMusic
appendVoiceUseToStoreCommand(sc, n) ==
  addElementToParallelMusic(sc, Node("lpsrUseVoiceCommand", n))

appendLyricsUseToStoreCommand(sc, n) ==
  addElementToParallelMusic(sc, Node("lpsrNewLyricsBlock", n))

\* lpsrScore::appendVoiceToScoreElements
appendVoiceToScoreElements(sc, n) ==
  [sc EXCEPT !.fScoreElements = Append(@, Node("msrVoice", n))]

\* msrHarmony::appendHarmonyDegreeToHarmony
appendHarmonyDegreeToHarmony(h, n) ==
  [h EXCEPT !.fHarmonyDegreesList = Append(@, Node("msrHarmonyDegree", n))]

ChangeScore(sc) ==
  /\ score' = sc
  /\ browsed' = NothingBrowsed
  /\ UNCHANGED <<harmony, trVars, guidoVars, resultVars>>

SetTongueSchemeFunctionNeeded ==
  /\ score.fields # << >>
  /\ ChangeScore(setTongueSchemeFunctionNeeded(score))

MayAppend ==
  Len(score.fScoreElements) + Len(score.fParallelMusicElements)
    + Len(harmony.fHarmonyDegreesList) < MaxAppends

\* the element appended to the parallel music is named by its rank
AppendVoiceUseToStoreCommand ==
  /\ MayAppend
  /\ ChangeScore(appendVoiceUseToStoreCommand(
                   score, Len(score.fParallelMusicElements) + 1))

AppendLyricsUseToStoreCommand ==
  /\ MayAppend
  /\ ChangeScore(appendLyricsUseToStoreCommand(
                   score, Len(score.fParallelMusicElements) + 1))

\* the voices are appended in any order of their numbers
AppendVoiceToScoreElements ==
  /\ MayAppend
  /\ \E n \in (1..MaxAppends) \ Names(score.fScoreElements) :
       ChangeScore(appendVoiceToScoreElements(score, n))

AppendHarmonyDegreeToHarmony ==
  /\ MayAppend
  /\ harmony' = appendHarmonyDegreeToHarmony(
                   harmony, Len(harmony.fHarmonyDegreesList) + 1)
  /\ browsed' = NothingBrowsed
  /\ UNCHANGED <<score, trVars, guidoVars, resultVars>>

Browse(root) ==
  /\ browsed' = [root |-> root, calls |-> browse(root, score, harmony)]
  /\ UNCHANGED <<score, harmony, trVars, guidoVars, resultVars>>

BrowseScore ==
  /\ browsed.root # TheScore
  /\ Browse(TheScore)

BrowseParallelMusic ==
  /\ browsed.root # lpsrScoreBlock_fields[1]
  /\ Browse(lpsrScoreBlock_fields[1])

BrowseHarmony ==
  /\ browsed.root # TheHarmony
  /\ Browse(TheHarmony)

LpsrConstructed ==
  /\ score \in {lpsrScore_lpsrScore(a, b, c) : a, b, c \in BOOLEAN}
  /\ harmony = msrHarmony_msrHarmony
  /\ browsed = NothingBrowsed
  /\ harmonyClone = NoClone
  /\ guidoOut = NoOutput
  /\ clefsInPart = {}
  /\ oah = NoCommandLine

NextBrowse ==
  \/ SetTongueSchemeFunctionNeeded
  \/ AppendVoiceUseToStoreCommand
  \/ AppendLyricsUseToStoreCommand
  \/ AppendVoiceToScoreElements
  \/ AppendHarmonyDegreeToHarmony
  \/ BrowseScore
  \/ BrowseParallelMusic
  \/ BrowseHarmony

InitBrowse == ConstructedTranslator /\ GuidoIdle /\ LpsrConstructed

SpecBrowse == InitBrowse /\ [][NextBrowse]_vars

\* the children a node holds, in groups: the fields in the order they were
\* created, and each collection in the order its elements were inserted
StoredGroups(node) ==
  CASE node.kind = "lpsrScore" ->
         { score.fields,
           [i \in DOMAIN score.schemeFunctionsInserted |->
              SchemeFunction(score.schemeFunctionsInserted[i])],
           score.fScoreElements }
    [] node.kind = "lpsrScoreBlock" -> { lpsrScoreBlock_fields }
    [] node.kind = "lpsrParallelMusic" -> { score.fParallelMusicElements }
    [] node.kind = "msrHarmony" -> { harmony.fHarmonyDegreesList }
    [] OTHER -> {}

CallsOf(call, node) ==
  {i \in DOMAIN browsed.calls : browsed.calls[i] = [call |-> call, node |-> node]}

BrowsedNodes == {browsed.calls[i].node : i \in DOMAIN browsed.calls}

In(node) == CHOOSE i \in CallsOf("acceptIn", node) : TRUE
Out(node) == CHOOSE i \in CallsOf("acceptOut", node) : TRUE

\* C10: browsing a node calls its acceptIn first, then browses each of its
\* children in stored (insertion) order, then calls its acceptOut; no child
\* is browsed before the acceptIn or after the acceptOut of its parent.
C10_BrowseOrder ==
  browsed.root.kind # "none" =>
    /\ browsed.calls[1] = acceptIn(browsed.root)
    /\ browsed.calls[Len(browsed.calls)] = acceptOut(browsed.root)
    /\ \A p \in BrowsedNodes :
         /\ Cardinality(CallsOf("acceptIn", p)) = 1
         /\ Cardinality(CallsOf("acceptOut", p)) = 1
         /\ In(p) < Out(p)
         /\ \A g \in StoredGroups(p) :
              /\ \A i \in DOMAIN g :
                   /\ g[i] \in BrowsedNodes
                   /\ In(p) < In(g[i])
                   /\ Out(g[i]) < Out(p)
              /\ \A i, j \in DOMAIN g : i < j => Out(g[i]) < In(g[j])

\* the score has been browsed with two Scheme functions, two voices appended
\* against the order of their numbers and an element in the parallel music
C10_Witness ==
  /\ browsed.root = TheScore
  /\ Len(score.schemeFunctionsInserted) = 2
  /\ Len(score.fScoreElements) = 2
  /\ score.fScoreElements[1].name > score.fScoreElements[2].name
  /\ Len(score.fParallelMusicElements) = 1

(***************************************************************************)
(* Browsing with a visitor.  A visitor is the set of the kinds of nodes    *)
(* for which it implements visitStart and visitEnd; acceptIn and acceptOut *)
(* cast the visitor to the visitor of the kind of the node.                *)
(***************************************************************************)
ContainerKinds == {"lpsrScore", "lpsrScoreBlock", "lpsrParallelMusic", "msrHarmony"}

ElementKinds == {"lpsrUseVoiceCommand", "lpsrNewLyricsBlock", "msrVoice",
                 "msrHarmonyDegree", "lpsrLayout"}

\* the visitors: one of the containers only, one of the elements only, one
\* of both
Visitors == {ContainerKinds, ElementKinds, ContainerKinds \cup ElementKinds}

visitStart(node) == [visit |-> "visitStart", node |-> node]
visitEnd(node) == [visit |-> "visitEnd", node |-> node]

\* an acceptIn that launches visitStart whatever the visitor implements
acceptIn_NoCast(node, v) == <<visitStart(node)>>

\* the visitStart that the acceptIn of node launches on the visitor v
acceptIn_launches(node, v) ==
  IF node.kind \in v THEN <<visitStart(node)>> ELSE << >>

\* the visitEnd that the acceptOut of node launches on the visitor v
acceptOut_launches(node, v) ==
  IF node.kind \in v THEN <<visitEnd(node)>> ELSE << >>

\* the handlers of v launched by the calls of a browse, in their order
RECURSIVE Launched(_, _)
Launched(calls, v) ==
  IF calls = << >> THEN << >>
  ELSE (IF Head(calls).call = "acceptIn"
        THEN acceptIn_launches(Head(calls).node, v)
        ELSE acceptOut_launches(Head(calls).node, v))
       \o Launched(Tail(calls), v)

BrowseWith(root, v) ==
  /\ browsed' = [root |-> root, calls |-> browse(root, score, harmony),
                 visitor |-> v,
                 visits |-> Launched(browse(root, score, harmony), v)]
  /\ UNCHANGED <<score, harmony, trVars, guidoVars, resultVars>>

VisitScore ==
  /\ browsed.root # TheScore
  /\ \E v \in Visitors : BrowseWith(TheScore, v)

VisitHarmony ==
  /\ browsed.root # TheHarmony
  /\ \E v \in Visitors : BrowseWith(TheHarmony, v)

NextVisit ==
  \/ SetTongueSchemeFunctionNeeded
  \/ AppendVoiceUseToStoreCommand
  \/ AppendLyricsUseToStoreCommand
  \/ AppendVoiceToScoreElements
  \/ AppendHarmonyDegreeToHarmony
  \/ VisitScore
  \/ VisitHarmony

InitVisit == ConstructedTranslator /\ GuidoIdle /\ LpsrIdle

SpecVisit == InitVisit /\ [][NextVisit]_vars

VisitsOf(visit, node) ==
  {i \in DOMAIN browsed.visits :
     browsed.visits[i] = [visit |-> visit, node |-> node]}

\* C11: acceptIn/acceptOut invoke visitStart/visitEnd for a node only if the
\* visitor implements a handler for the kind of the node, and then once each;
\* otherwise nothing is called, no error is raised, and the traversal still
\* continues into the children of the node.
C11_HandlersOnlyForImplementedKinds ==
  browsed.root.kind # "none" =>
    /\ status = "running"
    /\ \A i \in DOMAIN browsed.visits :
         browsed.visits[i].node.kind \in browsed.visitor
    /\ \A n \in BrowsedNodes :
         /\ Cardinality(VisitsOf("visitStart", n))
              = (IF n.kind \in browsed.visitor THEN 1 ELSE 0)
         /\ Cardinality(VisitsOf("visitEnd", n))
              = (IF n.kind \in browsed.visitor THEN 1 ELSE 0)
         /\ \A g \in StoredGroups(n) : \A i \in DOMAIN g :
              /\ g[i] \in BrowsedNodes
              /\ g[i].kind \in browsed.visitor =>
                   VisitsOf("visitStart", g[i]) # {}

\* the score has been browsed by a visitor that implements no handler for
\* the containers, and the handler of a voice in the list of the score has
\* been launched
C11_Witness ==
  /\ browsed.root = TheScore
  /\ browsed.visitor = ElementKinds
  /\ score.fScoreElements # << >>
  /\ VisitsOf("visitStart", score.fScoreElements[1]) # {}
  /\ VisitsOf("visitStart", TheScore) = {}

(***************************************************************************)
(* The clones and copies of a harmony.                                     *)
(***************************************************************************)
Voices == {"voice 1", "voice 2"}

NoVoice == "nullptr"

HarmonyArguments ==
  [ inputLineNumber : {1},
    harmonyVoiceUpLink : Voices,
    harmonyRootQuarterTonesPitchKind : {0, 4},
    harmonyKind : {"kMajorHarmony", "kMinorHarmony"},
    harmonyKindText : {"", "m"},
    harmonyInversion : {0, 1},
    harmonyBassQuarterTonesPitchKind : {k_NoQuarterTonesPitch_QTP, 8},
    harmonySoundingWholeNotes : {<<1, 4>>, <<1, 2>>},
    harmonyDisplayWholeNotes : {<<1, 4>>},
    harmonyStaffNumber : {1, 2},
    harmonyTupletFactor : {<<1, 1>>, <<3, 2>>},
    harmonyWholeNotesOffset : {<<0, 1>>} ]

\* the harmonies that are constructed without an error
HarmonyConstructed ==
  /\ harmony \in {msrHarmony(a) : a \in HarmonyArguments}
  /\ ~ harmony.msrMusicXMLError
  /\ score = lpsrScore_lpsrScore(FALSE, FALSE, FALSE)
  /\ browsed = NothingBrowsed
  /\ harmonyClone = NoClone
  /\ guidoOut = NoOutput
  /\ clefsInPart = {}
  /\ oah = NoCommandLine

\* msrAssert (containingVoice != nullptr) fails on a null voice and no
\* harmony is returned
Cloned(op, containingVoice, result) ==
  /\ harmonyClone' =
       [op |-> op, containingVoice |-> containingVoice,
        asserted |-> containingVoice # NoVoice,
        from |-> harmony,
        result |-> IF containingVoice # NoVoice THEN result ELSE harmony]
  /\ UNCHANGED <<lpsrVars, trVars, guidoVars, guidoOut, clefsInPart, oah>>

CreateHarmonyNewbornClone ==
  \E containingVoice \in Voices \cup {NoVoice} :
    /\ harmonyClone.op # "createHarmonyNewbornClone"
    /\ Cloned("createHarmonyNewbornClone", containingVoice,
              createHarmonyNewbornClone(harmony, containingVoice))

CreateHarmonyDeepCopy ==
  \E containingVoice \in Voices \cup {NoVoice} :
    /\ harmonyClone.op # "createHarmonyDeepCopy"
    /\ Cloned("createHarmonyDeepCopy", containingVoice,
              createHarmonyDeepCopy(harmony, containingVoice))

NextHarmony ==
  \/ AppendHarmonyDegreeToHarmony
  \/ CreateHarmonyNewbornClone
  \/ CreateHarmonyDeepCopy

InitHarmony == ConstructedTranslator /\ GuidoIdle /\ HarmonyConstructed

SpecHarmony == InitHarmony /\ [][NextHarmony]_vars

CopiedAttributes ==
  { "fHarmonyRootQuarterTonesPitchKind", "fHarmonyKind", "fHarmonyKindText",
    "fHarmonyInversion", "fHarmonyBassQuarterTonesPitchKind",
    "fSoundingWholeNotes", "fHarmonyDisplayWholeNotes", "fHarmonyStaffNumber",
    "fHarmonyTupletFactor", "fHarmonyWholeNotesOffset" }

SameAttributes(h1, h2) == \A f \in CopiedAttributes : h1[f] = h2[f]

\* C12: the harmony that createHarmonyDeepCopy returns has the attributes of
\* the original and a harmony degrees list that holds a copy of each degree
\* of the original, in the same order.
C12_DeepCopyClonesDegrees ==
  (harmonyClone.op = "createHarmonyDeepCopy" /\ harmonyClone.asserted) =>
    /\ SameAttributes(harmonyClone.result, harmonyClone.from)
    /\ harmonyClone.result.fHarmonyDegreesList
         = harmonyClone.from.fHarmonyDegreesList

\* C13: the harmony that createHarmonyNewbornClone returns has the attributes
\* of the original, an empty harmony degrees list and containingVoice as its
\* voice uplink.
C13_NewbornCloneCopiesAttributes ==
  (harmonyClone.op = "createHarmonyNewbornClone" /\ harmonyClone.asserted) =>
    /\ SameAttributes(harmonyClone.result, harmonyClone.from)
    /\ harmonyClone.result.fHarmonyDegreesList = << >>
    /\ harmonyClone.result.fHarmonyVoiceUpLink = harmonyClone.containingVoice

\* an inverted harmony with degrees has been cloned into another voice
C13_Witness ==
  /\ harmonyClone.op = "createHarmonyNewbornClone"
  /\ harmonyClone.asserted
  /\ harmonyClone.from.fHarmonyInversion > 0
  /\ harmonyClone.from.fHarmonyDegreesList # << >>
  /\ harmonyClone.containingVoice # harmonyClone.from.fHarmonyVoiceUpLink
  /\ harmonyClone.result.fHarmonyVoiceUpLink = harmonyClone.containingVoice

(***************************************************************************)
(* The clefs of the xml2guidovisitor.  parseClef writes the clef tag of a  *)
(* staff; visitEnd (S_clef&) records a key for the clef in the set of the  *)
(* clefs of the current part.                                              *)
(***************************************************************************)
MaxClefs == 2

\* guidotag::create (name) followed by one tag->add (guidoparam) per parameter
Tag(name, params) == [tag |-> name, params |-> params]

\* "jianpu" is a sign of MusicXML that neither function names
ClefSigns == {"G", "F", "C", "jianpu"}

\* the value of <line>, 0 when the element is absent
ClefLines == {0, 2, 3, 4}

ClefOctaveChanges == {-1, 0, 1}

ClefElements ==
  [sign : ClefSigns, line : ClefLines, octaveChange : ClefOctaveChanges,
   number : {1, 2}]

ClefLetter(clefsign) ==
  CASE clefsign = "G" -> "g"
    [] clefsign = "F" -> "f"
    [] clefsign = "C" -> "c"
    [] clefsign = "percussion" -> "perc"
    [] clefsign = "TAB" -> "TAB"
    [] clefsign = "none" -> "none"
    [] OTHER -> ""

NoEffect == [added |-> << >>, cerr |-> << >>]

parseClef_UnknownAsNone(iter, staffIndex) ==
  IF iter.number # staffIndex THEN NoEffect
  ELSE
    LET letter == IF ClefLetter(iter.sign) = "" THEN "none"
                  ELSE ClefLetter(iter.sign)
        s == letter \o (IF iter.line # 0 THEN ToString(iter.line) ELSE "")
        param == s \o (IF iter.octaveChange = 1 THEN "+8"
                       ELSE IF iter.octaveChange = -1 THEN "-8" ELSE "")
    IN  [added |-> <<Tag("clef", <<param>>)>>, cerr |-> << >>]

parseClef(iter, staffIndex) ==
  IF iter.number # staffIndex THEN NoEffect
  ELSE IF ClefLetter(iter.sign) = ""
  THEN [added |-> << >>,
        cerr |-> <<"warning: unknown clef sign \"" \o iter.sign \o "\"">>]
  ELSE
    LET s == ClefLetter(iter.sign)
               \o (IF iter.line # 0 THEN ToString(iter.line) ELSE "")
        param == s \o (IF iter.octaveChange = 1 THEN "+8"
                       ELSE IF iter.octaveChange = -1 THEN "-8" ELSE "")
    IN  [added |-> <<Tag("clef", <<param>>)>>, cerr |-> << >>]

\* the key visitEnd (S_clef&) computes from the fields of the clefvisitor
visitEnd_clef_AnyOctave(fSign, fLine, fOctaveChange) ==
  CASE fSign = "G" /\ fLine = 2 -> "g2"
    [] fSign = "F" /\ fLine = 4 -> "f4"
    [] fSign = "C" /\ fLine = 3 -> "alto"
    [] fSign = "C" /\ fLine = 4 -> "tenor"
    [] OTHER -> "unknown"

visitEnd_clef(fSign, fLine, fOctaveChange) ==
  CASE fSign = "G" /\ fLine = 2 /\ fOctaveChange = 0 -> "g2"
    [] fSign = "G" /\ fLine = 2 /\ fOctaveChange = -1 -> "g-8"
    [] fSign = "G" /\ fLine = 2 /\ fOctaveChange = 1 -> "g+8"
    [] fSign = "F" /\ fLine = 4 /\ fOctaveChange = 0 -> "f4"
    [] fSign = "F" /\ fLine = 4 /\ fOctaveChange = -1 -> "f-8"
    [] fSign = "F" /\ fLine = 4 /\ fOctaveChange = 1 -> "f+8"
    [] fSign = "C" /\ fLine = 3 /\ fOctaveChange = 0 -> "alto"
    [] fSign = "C" /\ fLine = 4 /\ fOctaveChange = 0 -> "tenor"
    [] OTHER -> "unknown"

ParseClef ==
  \E iter \in ClefElements, staffIndex \in {1} :
    /\ guidoOut' = [fn |-> "parseClef",
                    args |-> [iter |-> iter, staffIndex |-> staffIndex],
                    added |-> parseClef(iter, staffIndex).added,
                    params |-> << >>,
                    cerr |-> parseClef(iter, staffIndex).cerr]
    /\ UNCHANGED <<clefsInPart, harmonyClone, oah, trVars, guidoVars, lpsrVars>>

VisitEndClef ==
  \E iter \in {c \in ClefElements : c.number = 1} :
    /\ Cardinality(clefsInPart) < MaxClefs
    /\ clefsInPart' = clefsInPart
         \cup {visitEnd_clef(iter.sign, iter.line, iter.octaveChange)}
    /\ guidoOut' = [fn |-> "visitEnd_clef",
                    args |-> [iter |-> iter, staffIndex |-> iter.number],
                    added |-> << >>, params |-> << >>, cerr |-> << >>]
    /\ UNCHANGED <<harmonyClone, oah, trVars, guidoVars, lpsrVars>>

NextClef ==
  \/ ParseClef
  \/ VisitEndClef

InitClef == ConstructedTranslator /\ GuidoIdle /\ LpsrIdle

SpecClef == InitClef /\ [][NextClef]_vars

\* the clef of the last call has this sign, line and octave change, and
\* parseClef was given the staff the clef belongs to
ClefIs(fn, sign, line, octaveChange) ==
  /\ guidoOut.fn = fn
  /\ guidoOut.args.iter.sign = sign
  /\ guidoOut.args.iter.line = line
  /\ guidoOut.args.iter.octaveChange = octaveChange
  /\ guidoOut.args.iter.number = guidoOut.args.staffIndex

ClefTagIs(param) == guidoOut.added = <<Tag("clef", <<param>>)>>

ClefKeyIs(key) ==
  key \in clefsInPart

\* C14: the clef (G, 2, 0) is converted to g2, the clef (F, 4, -1) to f-8 and
\* the clef (C, 3, 0) to alto, in the clef tag parseClef writes and in the
\* key visitEnd (S_clef&) records.
C14_ClefConversion ==
  /\ ClefIs("parseClef", "G", 2, 0) => ClefTagIs("g2")
  /\ ClefIs("parseClef", "F", 4, -1) => ClefTagIs("f-8")
  /\ ClefIs("parseClef", "C", 3, 0) => ClefTagIs("alto")
  /\ ClefIs("visitEnd_clef", "G", 2, 0) => ClefKeyIs("g2")
  /\ ClefIs("visitEnd_clef", "F", 4, -1) => ClefKeyIs("f-8")
  /\ ClefIs("visitEnd_clef", "C", 3, 0) => ClefKeyIs("alto")

\* C14, amended: the key visitEnd (S_clef&) records is g2 for the clef
\* (G, 2, 0), f-8 for (F, 4, -1) and alto for (C, 3, 0); the clef tag
\* parseClef writes for these clefs has the parameter g2, f4-8 and c3: the
\* letter of the sign, the line, and the octave change as +8 or -8.
C14_ClefKeysAndClefTags ==
  /\ ClefIs("parseClef", "G", 2, 0) => ClefTagIs("g2")
  /\ ClefIs("parseClef", "F", 4, -1) => ClefTagIs("f4-8")
  /\ ClefIs("parseClef", "C", 3, 0) => ClefTagIs("c3")
  /\ ClefIs("visitEnd_clef", "G", 2, 0) => ClefKeyIs("g2")
  /\ ClefIs("visitEnd_clef", "F", 4, -1) => ClefKeyIs("f-8")
  /\ ClefIs("visitEnd_clef", "C", 3, 0) => ClefKeyIs("alto")

\* the keys of two clefs of the part were recorded, the bass clef an octave
\* lower last
C14_Witness ==
  /\ ClefIs("visitEnd_clef", "F", 4, -1)
  /\ clefsInPart = {"alto", "f-8"}

\* the sign is one parseClef names
KnownClefSign == ClefLetter(guidoOut.args.iter.sign) # ""

OfTheStaff == guidoOut.args.iter.number = guidoOut.args.staffIndex

\* C15: a clef with an unrecognized sign produces a warning, no clef tag and
\* no entry for the clef among the clefs of the part.
C15_UnknownSignWarnsAndLeavesNothing ==
  /\ (guidoOut.fn = "parseClef" /\ OfTheStaff /\ ~ KnownClefSign) =>
       (guidoOut.cerr # << >> /\ guidoOut.added = << >>)
  /\ (guidoOut.fn = "visitEnd_clef" /\ ~ KnownClefSign) =>
       (guidoOut.cerr # << >> /\ "unknown" \notin clefsInPart)

\* C15, amended: parseClef, given a clef of the staff whose sign it does not
\* name, writes a warning and adds no clef tag; visitEnd (S_clef&) writes no
\* warning and records the key unknown for such a clef among the clefs of
\* the part.
C15_UnknownSignWarnsInParseClefOnly ==
  /\ (guidoOut.fn = "parseClef" /\ OfTheStaff /\ ~ KnownClefSign) =>
       (guidoOut.cerr # << >> /\ guidoOut.added = << >>)
  /\ (guidoOut.fn = "visitEnd_clef" /\ ~ KnownClefSign) =>
       (guidoOut.cerr = << >> /\ "unknown" \in clefsInPart)

\* parseClef was given a clef of the staff with an unknown sign, after the
\* key of a clef was recorded
C15_Witness ==
  /\ guidoOut.fn = "parseClef"
  /\ OfTheStaff
  /\ ~ KnownClefSign
  /\ guidoOut.cerr # << >>
  /\ clefsInPart # {}

(***************************************************************************)
(* The position helpers of the xml2guidovisitor.  The offsets of MusicXML  *)
(* are tenths of a staff space; the ones drawn here are multiples of 5, on *)
(* which the float division by 10 and the product by 2 are exact.          *)
(***************************************************************************)
DefaultOffsets == {0, 10}

RelativeOffsets == {-10, 0, 10}

\* the attributes default-x, relative-x, default-y, relative-y of the
\* element, 0 for an absent one
PositionedElements ==
  [defaultX : DefaultOffsets, relativeX : RelativeOffsets,
   defaultY : DefaultOffsets, relativeY : RelativeOffsets]

\* the anchor offsets the callers pass, in half spaces
AnchorOffsets == {-2, 0, 2}

\* (pos / 10) * 2
HalfSpaces(pos) == (pos * 2) \div 10

\* s << "dx=" << posx << "hs"
PositionParam(name, pos) == name \o "=" \o ToString(pos) \o "hs"

addPosition_Untested(elt, yoffset) ==
  LET posx == elt.defaultX + elt.relativeX
      posy == elt.defaultY + elt.relativeY
  IN  <<PositionParam("dx", HalfSpaces(posx)),
        PositionParam("dy", HalfSpaces(posy) + yoffset)>>

addPosition(elt, yoffset) ==
  LET posx == elt.defaultX + elt.relativeX
      posy == elt.defaultY + elt.relativeY
  IN  (IF posx # 0 THEN <<PositionParam("dx", HalfSpaces(posx))>>
       ELSE << >>)
      \o (IF posy # 0 THEN <<PositionParam("dy", HalfSpaces(posy) + yoffset)>>
          ELSE << >>)

\* the overload with an x offset
addPosition_xoffset(elt, yoffset, xoffset) ==
  LET posx == elt.defaultX + elt.relativeX
      posy == elt.defaultY + elt.relativeY
  IN  (IF posx # 0 THEN <<PositionParam("dx", HalfSpaces(posx) + xoffset)>>
       ELSE << >>)
      \o (IF posy # 0 THEN <<PositionParam("dy", HalfSpaces(posy) + yoffset)>>
          ELSE << >>)

addPosY(elt, yoffset, ymultiplier) ==
  LET posy == (HalfSpaces(elt.relativeY + elt.defaultY) + yoffset)
                * ymultiplier
  IN  IF posy # 0 THEN <<PositionParam("dy", posy)>> ELSE << >>

addPosX(elt, xoffset) ==
  LET posx == HalfSpaces(elt.defaultX + elt.relativeX) + xoffset
  IN  IF posx # 0 THEN <<PositionParam("dx", posx)>> ELSE << >>

addRelativeX(elt, xoffset) ==
  LET posx == elt.relativeX
  IN  IF posx = 0 THEN << >>
      ELSE <<PositionParam("dx", HalfSpaces(posx) + xoffset)>>

\* the helper fn was called on elt and a new tag
Positioned(fn, elt, xoffset, yoffset, ymultiplier, params) ==
  /\ guidoOut' = [fn |-> fn,
                  args |-> [elt |-> elt, xoffset |-> xoffset,
                            yoffset |-> yoffset, ymultiplier |-> ymultiplier],
                  added |-> << >>, params |-> params, cerr |-> << >>]
  /\ UNCHANGED <<clefsInPart, harmonyClone, oah, trVars, guidoVars, lpsrVars>>

AddPosition ==
  \E elt \in PositionedElements, yoffset \in AnchorOffsets :
    /\ guidoOut.fn # "addPosition"
    /\ Positioned("addPosition", elt, 0, yoffset, 1, addPosition(elt, yoffset))

AddPosition_xoffset ==
  \E elt \in PositionedElements, yoffset, xoffset \in AnchorOffsets :
    /\ guidoOut.fn # "addPosition_xoffset"
    /\ Positioned("addPosition_xoffset", elt, xoffset, yoffset, 1,
                  addPosition_xoffset(elt, yoffset, xoffset))

AddPosY ==
  \E elt \in PositionedElements, yoffset \in AnchorOffsets,
     ymultiplier \in {1, -1} :
    /\ guidoOut.fn # "addPosY"
    /\ Positioned("addPosY", elt, 0, yoffset, ymultiplier,
                  addPosY(elt, yoffset, ymultiplier))

AddPosX ==
  \E elt \in PositionedElements, xoffset \in AnchorOffsets :
    /\ guidoOut.fn # "addPosX"
    /\ Positioned("addPosX", elt, xoffset, 0, 1, addPosX(elt, xoffset))

AddRelativeX ==
  \E elt \in PositionedElements, xoffset \in AnchorOffsets :
    /\ guidoOut.fn # "addRelativeX"
    /\ Positioned("addRelativeX", elt, xoffset, 0, 1,
                  addRelativeX(elt, xoffset))

NextPosition ==
  \/ AddPosition
  \/ AddPosition_xoffset
  \/ AddPosY
  \/ AddPosX
  \/ AddRelativeX

InitPosition ==
  ConstructedTranslator /\ GuidoIdle /\ LpsrIdle

SpecPosition == InitPosition /\ [][NextPosition]_vars

PositionHelpers ==
  {"addPosition", "addPosition_xoffset", "addPosY", "addPosX", "addRelativeX"}

\* the source offset the helper of the last call reads in x and in y
SourceX ==
  IF guidoOut.fn = "addRelativeX" THEN guidoOut.args.elt.relativeX
  ELSE guidoOut.args.elt.defaultX + guidoOut.args.elt.relativeX

SourceY == guidoOut.args.elt.defaultY + guidoOut.args.elt.relativeY

\* the source offset scaled to half spaces plus the anchor offset (inverted
\* when addPosY is asked to)
ConvertedX == HalfSpaces(SourceX) + guidoOut.args.xoffset

ConvertedY ==
  (HalfSpaces(SourceY) + guidoOut.args.yoffset) * guidoOut.args.ymultiplier

Emitted == {guidoOut.params[i] : i \in DOMAIN guidoOut.params}

\* C16: every position helper emits as dx or dy the source offset scaled to
\* half spaces plus the anchor offset, and emits no dx or dy parameter when
\* that converted value is zero: a parameter with the value 0 never appears.
C16_ZeroPositionNeverEmitted ==
  guidoOut.fn \in PositionHelpers =>
    /\ Emitted \subseteq {PositionParam("dx", ConvertedX),
                          PositionParam("dy", ConvertedY)}
    /\ PositionParam("dx", 0) \notin Emitted
    /\ PositionParam("dy", 0) \notin Emitted

\* C17: a position helper called on an element whose default and relative
\* offsets are all zero, with anchor offsets of zero, adds no dx and no dy
\* parameter to the tag.
C17_ZeroOffsetsAddNoParameter ==
  ( /\ guidoOut.fn \in PositionHelpers
    /\ guidoOut.args.elt.defaultX = 0 /\ guidoOut.args.elt.relativeX = 0
    /\ guidoOut.args.elt.defaultY = 0 /\ guidoOut.args.elt.relativeY = 0
    /\ guidoOut.args.xoffset = 0 /\ guidoOut.args.yoffset = 0 ) =>
    guidoOut.params = << >>

\* addPosition was called on an element without offsets and with no anchor
\* offset
C17_Witness ==
  /\ guidoOut.fn = "addPosition"
  /\ SourceX = 0 /\ SourceY = 0
  /\ guidoOut.args.elt.relativeX = 0 /\ guidoOut.args.elt.relativeY = 0
  /\ guidoOut.args.yoffset = 0
  /\ guidoOut.params = << >>

(***************************************************************************)
(* parseTime: the meter tag of a time element.                             *)
(***************************************************************************)
parseTime(iter, fGenerateBars) ==
  LET tag == Tag("meter",
                 <<TimeSign(iter).timesign>>
                 \o (IF fGenerateBars THEN <<"autoBarlines=\"off\"">>
                     ELSE << >>)
                 \o <<"autoMeasuresNum=\"system\"">>)
  IN  [added |-> IF iter.printObject # "no" THEN <<tag>> ELSE << >>,
       cerr |-> << >>]

\* the beats and beat-type of a time element
TimePairs == {<<"4", "4">>, <<"2", "2">>, <<"3", "4">>, <<"3", "8">>,
              <<"2", "8">>}

TimeElements ==
  [symbol : {"", "common", "cut"}, senzamesura : BOOLEAN,
   pairs : UNION {[1..n -> TimePairs] : n \in 0..MaxPairs},
   printObject : {"", "no"}]

ParseTime ==
  \E iter \in TimeElements, fGenerateBars \in BOOLEAN :
    /\ guidoOut.fn = "none"
    /\ guidoOut' = [fn |-> "parseTime",
                    args |-> [iter |-> iter, fGenerateBars |-> fGenerateBars],
                    added |-> parseTime(iter, fGenerateBars).added,
                    params |-> << >>,
                    cerr |-> << >>,
                    timesign |-> TimeSign(iter).timesign,
                    fCurrentTimeSign |-> TimeSign(iter).fCurrentTimeSign]
    /\ UNCHANGED <<clefsInPart, harmonyClone, oah, trVars, guidoVars, lpsrVars>>

NextTime == ParseTime

InitTime == ConstructedTranslator /\ GuidoIdle /\ LpsrIdle

SpecTime == InitTime /\ [][NextTime]_vars

\* parseTime was called on a time element that is not senza misura, with
\* this symbol and these pairs
TimeIs(symbols, pairs) ==
  /\ guidoOut.fn = "parseTime"
  /\ ~ guidoOut.args.iter.senzamesura
  /\ guidoOut.args.iter.symbol \in symbols
  /\ guidoOut.args.iter.pairs = pairs

AnySymbol == {"", "common", "cut"}

\* C18: the meter text produced for the time signature (4,4) is C and the
\* one produced for the time signature (2,2) is C/.
C18_CommonAndCutText ==
  /\ TimeIs(AnySymbol, << <<"4", "4">> >>) => guidoOut.timesign = "C"
  /\ TimeIs(AnySymbol, << <<"2", "2">> >>) => guidoOut.timesign = "C/"

\* C18, amended: with the symbol common the meter text produced for the
\* time signature (4,4) is C and the one for (2,2) is C/; with the symbol
\* cut the text is C/; without a symbol the text for (4,4) is 4/4 and the
\* one for (2,2) is 2/2.
C18_TextFollowsTheSymbol ==
  /\ TimeIs({"common"}, << <<"4", "4">> >>) => guidoOut.timesign = "C"
  /\ TimeIs({"common"}, << <<"2", "2">> >>) => guidoOut.timesign = "C/"
  /\ TimeIs({"cut"}, guidoOut.args.iter.pairs) => guidoOut.timesign = "C/"
  /\ TimeIs({""}, << <<"4", "4">> >>) => guidoOut.timesign = "4/4"
  /\ TimeIs({""}, << <<"2", "2">> >>) => guidoOut.timesign = "2/2"

\* the meter tag of a 4/4 with the symbol common was added
C18_Witness ==
  /\ TimeIs({"common"}, << <<"4", "4">> >>)
  /\ guidoOut.added # << >>
  /\ guidoOut.added[1].params[1] = "C"

\* the sum of the pairs in eighths
RECURSIVE Eighths(_)
Eighths(pairs) ==
  IF pairs = << >> THEN 0
  ELSE strtol(Head(pairs)[1]) * (8 \div strtol(Head(pairs)[2]))
         + Eighths(Tail(pairs))

RECURSIVE JoinedPairs(_)
JoinedPairs(pairs) ==
  IF pairs = << >> THEN ""
  ELSE JoinedPairs(SubSeq(pairs, 1, Len(pairs) - 1))
         \o (IF Len(pairs) > 1 THEN "+" ELSE "")
         \o pairs[Len(pairs)][1] \o "/" \o pairs[Len(pairs)][2]

\* C19: for a time signature whose symbol is neither common nor cut the
\* meter text is the beats/beat-type pairs in source order joined by +, and
\* the accumulated rational is the sum of the pairs; the pairs (3,8), (2,8)
\* give the text 3/8+2/8 and the rational 5/8.
C19_PairsJoinedAndSummed ==
  /\ TimeIs({""}, guidoOut.args.iter.pairs) =>
       /\ guidoOut.timesign = JoinedPairs(guidoOut.args.iter.pairs)
       /\ guidoOut.fCurrentTimeSign[1] * 8
            = Eighths(guidoOut.args.iter.pairs) * guidoOut.fCurrentTimeSign[2]
  /\ TimeIs({""}, << <<"3", "8">>, <<"2", "8">> >>) =>
       /\ guidoOut.timesign = "3/8+2/8"
       /\ guidoOut.fCurrentTimeSign[1] * 8 = 5 * guidoOut.fCurrentTimeSign[2]

\* the meter tag of the composite signature 3/8+2/8 was added
C19_Witness ==
  /\ TimeIs({""}, << <<"3", "8">>, <<"2", "8">> >>)
  /\ guidoOut.added # << >>
  /\ guidoOut.added[1].params[1] = "3/8+2/8"
  /\ guidoOut.fCurrentTimeSign = <<5, 8>>

(***************************************************************************)
(* A score of one part converted from end to end.  The measures of the     *)
(* part are full: the durations of the notes of a measure, in quarter      *)
(* notes, add up to the length the time signature gives it.                *)
(***************************************************************************)
MaxMeasures == 2

ScoreTimes == {<<"3", "4">>, <<"4", "4">>, <<"2", "2">>}

\* the length in quarter notes of a measure of this time signature
MeasureLength(pair) == (strtol(pair[1]) * 4) \div strtol(pair[2])

FullMeasures(pair) ==
  {durations \in UNION {[1..k -> 1..3] : k \in 1..4} :
     SumSeq(durations) = MeasureLength(pair)}

Scores ==
  {[voices |-> vs, countStaves |-> 1,
    time |-> [NoTime EXCEPT !.pairs = <<pair>>], measures |-> ms] :
     vs \in {<<1>>, <<1, 1>>}, pair \in ScoreTimes,
     ms \in UNION {SeqsUpTo(FullMeasures(p), MaxMeasures) : p \in ScoreTimes}}

VisitStartPartOfScore ==
  /\ guidoPart.id = 0
  /\ \E ps \in Scores :
       /\ \A m \in DOMAIN ps.measures :
            SumSeq(ps.measures[m]) = MeasureLength(ps.time.pairs[1])
       /\ LET g == visitStart_part(guido, 1, ps)
          IN /\ guido' = [x \in DOMAIN guido |-> g[x]]
             /\ guidoPart' = [id |-> 1, voices |-> ps.voices,
                              countStaves |-> ps.countStaves,
                              filtered |-> g.filtered,
                              offset |-> guido.fCurrentPartStaffOffset,
                              accolade |-> guido.fCurrentAccoladeIndex,
                              out |-> g.out, time |-> ps.time,
                              measures |-> ps.measures]
  /\ UNCHANGED <<partRun, trVars, lpsrVars, resultVars>>

NextScore == VisitStartPartOfScore

SpecScore == InitGuido /\ [][NextScore]_vars

TagsNamed(out, name) == {i \in DOMAIN out : out[i].tag = name}

\* the staff tags that open a staff: the ones the endBar tag does not follow
StaffOpenTags(out) ==
  {i \in TagsNamed(out, "staff") :
     i = Len(out) \/ out[i + 1].tag # "endBar"}

End(children) == Len(children) + 1

find(children, type, start) ==
  LET after == {k \in DOMAIN children : k > start /\ children[k] = type}
  IN  IF after = {} THEN End(children)
      ELSE CHOOSE k \in after : \A l \in after : k <= l

\* the parts that are run: up to two voices on up to three staves, and a
\* measure followed by up to two clefs, keys or notes
RunSummaries ==
  {[voices |-> vs, countStaves |-> c] :
     vs \in SeqsUpTo(1..3, 2), c \in 1..3}

RunChildren ==
  {<<"measure">> \o cs :
     cs \in UNION {[1..n -> {"clef", "key", "time"}] : n \in 0..2}}

\* the time element of the part, when it has one
RunTime == [NoTime EXCEPT !.pairs = <<<<"3", "8">>, <<"2", "8">>>>]

\* no call of parseTime yet, no call of pv.initialize yet
NotParsed == [called |-> FALSE, fCurrentTimeSign |-> <<0, 1>>]
NotHanded == [done |-> FALSE, value |-> <<0, 1>>, afterParse |-> FALSE]

\* the visitor enters a part: the loop on the voices starts
EnterPart ==
  /\ partRun.pc \in {"idle", "done"}
  /\ guidoPart.id < 2
  /\ \E ps \in RunSummaries, children \in RunChildren :
       /\ \A i \in DOMAIN ps.voices : ps.voices[i] <= ps.countStaves
       /\ partRun' = [pc |-> "voices", voices |-> ps.voices,
                      countStaves |-> ps.countStaves, children |-> children,
                      i |-> 1, targetStaff |-> -1, notesOnly |-> FALSE,
                      staffIndex |-> 0, ret |-> "none", iter |-> 0,
                      created |-> IF partRun.pc = "idle" THEN {}
                                  ELSE partRun.created,
                      currentTimeSign |-> <<0, 1>>,
                      parsed |-> NotParsed, handed |-> NotHanded]
  /\ guidoPart' = [guidoPart EXCEPT !.id = @ + 1]
  /\ UNCHANGED <<guido, trVars, lpsrVars, resultVars>>

Running(pc) ==
  /\ partRun.pc = pc
  /\ UNCHANGED <<guidoPart, trVars, lpsrVars, resultVars>>

firstStaffOfPart_SkippingOne(g) == [g EXCEPT !.fCurrentStaffIndex = @ + 2]

\* fCurrentStaffIndex++ for the first voice of the part
firstStaffOfPart(g) == [g EXCEPT !.fCurrentStaffIndex = @ + 1]

\* the head of one turn of the loop on the voices, up to the loop that
\* creates the intermediate staves
VoiceStep ==
  /\ Running("voices")
  /\ IF partRun.i > Len(partRun.voices)
     THEN /\ partRun' = [partRun EXCEPT !.pc = "implicit"]
          /\ UNCHANGED guido
     ELSE LET mainstaff == partRun.voices[partRun.i]
          IN  IF partRun.targetStaff = -1
              THEN /\ partRun' = [partRun EXCEPT !.pc = "intermediate",
                                                 !.notesOnly = FALSE,
                                                 !.targetStaff = mainstaff]
                   /\ guido' = firstStaffOfPart(guido)
              ELSE IF partRun.targetStaff = mainstaff
              THEN /\ partRun' = [partRun EXCEPT !.pc = "voice",
                                                 !.notesOnly = TRUE]
                   /\ UNCHANGED guido
              ELSE /\ partRun' = [partRun EXCEPT !.pc = "intermediate",
                                                 !.notesOnly = FALSE,
                                                 !.targetStaff = mainstaff]
                   /\ guido' = [guido EXCEPT !.fCurrentStaffIndex =
                                  IF mainstaff > partRun.targetStaff
                                  THEN @ + 1 ELSE @]

\* createStaff (staffIndex, elt) is entered: the staff tag is written and
\* the first clef is looked for; ret is the loop it returns to
createStaff_entered(r, staffIndex, ret) ==
  [r EXCEPT !.pc = "clefs", !.staffIndex = staffIndex, !.ret = ret,
            !.iter = find(r.children, "clef", 1),
            !.created = @ \cup {staffIndex}]

\* one test of the loop that creates the intermediate staves
IntermediateStep ==
  /\ Running("intermediate")
  /\ UNCHANGED guido
  /\ IF guido.fCurrentStaffIndex
          < partRun.targetStaff + guido.fCurrentPartStaffOffset
     THEN partRun' = createStaff_entered(partRun, guido.fCurrentStaffIndex,
                                         "intermediate")
     ELSE partRun' = [partRun EXCEPT !.pc = "voice"]

\* one test of the loop of createStaff on the clefs
ClefStep ==
  /\ Running("clefs")
  /\ UNCHANGED guido
  /\ IF partRun.iter # End(partRun.children)
     THEN partRun' = [partRun EXCEPT
                        !.iter = find(partRun.children, "clef", @)]
     ELSE partRun' = [partRun EXCEPT
                        !.pc = "keys",
                        !.iter = find(partRun.children, "key", 1)]

nextIntermediateStaff_SameIndex(g) == g

\* fCurrentStaffIndex++ after createStaff in the loop of the intermediate
\* staves
nextIntermediateStaff(g) == [g EXCEPT !.fCurrentStaffIndex = @ + 1]

\* the end of createStaff: parseTime on the first time element of the part,
\* when there is one; the rational parseTime computes is a local of parseTime
createStaff_meter(r) ==
  IF find(r.children, "time", 1) # End(r.children)
  THEN [r EXCEPT !.parsed =
          [called |-> TRUE,
           fCurrentTimeSign |-> TimeSign(RunTime).fCurrentTimeSign]]
  ELSE r

\* one test of the loop of createStaff on the keys; after the last key the
\* meter is written and createStaff returns
KeyStep ==
  /\ Running("keys")
  /\ IF partRun.iter # End(partRun.children)
     THEN /\ partRun' = [partRun EXCEPT
                           !.iter = find(partRun.children, "key", @)]
          /\ UNCHANGED guido
     ELSE /\ partRun' = [createStaff_meter(partRun) EXCEPT !.pc = partRun.ret]
          /\ guido' = IF partRun.ret = "intermediate"
                      THEN nextIntermediateStaff(guido) ELSE guido

\* pv.getTimeSign () after the browse of the part by the xmlpart2guido that
\* was initialized with the time signature initial: the time signature of
\* the time element of the part, when it has one
getTimeSign(children, initial) ==
  IF find(children, "time", 1) # End(children)
  THEN TimeSign(RunTime).fCurrentTimeSign
  ELSE initial

\* the rest of the turn: the staff tag of the voice, the browse of the part
\* for the voice, the closing tags
VoiceTags ==
  /\ Running("voice")
  /\ UNCHANGED guido
  /\ partRun' = [partRun EXCEPT
                   !.pc = "voices", !.i = @ + 1,
                   !.created = @ \cup {guido.fCurrentStaffIndex},
                   !.handed = [done |-> TRUE,
                               value |-> partRun.currentTimeSign,
                               afterParse |-> partRun.parsed.called],
                   !.currentTimeSign = getTimeSign(partRun.children, @)]

\* one test of the loop that creates the implicit staves
ImplicitStep ==
  /\ Running("implicit")
  /\ IF guido.fCurrentStaffIndex
          < guido.fCurrentPartStaffOffset + partRun.countStaves
     THEN /\ guido' = [guido EXCEPT !.fCurrentStaffIndex = @ + 1]
          /\ partRun' = createStaff_entered(partRun,
                                            guido.fCurrentStaffIndex + 1,
                                            "implicit")
     ELSE /\ guido' = [guido EXCEPT !.fCurrentPartStaffOffset =
                                      @ + partRun.countStaves]
          /\ partRun' = [partRun EXCEPT !.pc = "done"]

NextRun ==
  \/ EnterPart
  \/ VoiceStep
  \/ IntermediateStep
  \/ ClefStep
  \/ KeyStep
  \/ VoiceTags
  \/ ImplicitStep

InitRun == ConstructedTranslator /\ GuidoIdle /\ LpsrIdle

SpecRun == InitRun /\ [][NextRun]_vars

\* the visitor is not suspended in the middle of a visit
FairSpecRun == InitRun /\ [][NextRun]_vars /\ WF_vars(NextRun)

\* C21: the visit of a part terminates: the loops that create the
\* intermediate and the implicit staves and the loops of createStaff on
\* the clefs and the keys each end, so a visit that has started is
\* eventually done.
C21_VisitOfPartTerminates ==
  (partRun.pc \notin {"idle", "done"}) ~> (partRun.pc = "done")

\* the visit of a second part is done after createStaff has scanned two
\* clefs for an intermediate staff
C21_Witness ==
  /\ partRun.pc = "done"
  /\ guidoPart.id = 2
  /\ partRun.voices = <<2, 1>>
  /\ partRun.children = <<"measure", "clef", "clef">>
  /\ Cardinality(partRun.created) >= 3

(***************************************************************************)
(* The tuplet that is closed.                                              *)
(***************************************************************************)
\* the tuplet clone created and pushed when the tuplet closed last was
\* entered
ClosedTupletClone(x) ==
  /\ x.o = "clone"
  /\ x.kind = "Tuplet"
  /\ x.id = lastClosed.id

\* where a closed tuplet belongs: the tuplet on top of the stack, or the
\* voice clone when the stack is empty
ClosedTupletOwner ==
  IF tr.fTupletClonesStack # << >>
  THEN tr.fTupletClonesStack[Len(tr.fTupletClonesStack)]
  ELSE tr.fCurrentVoiceClone

\* C22: when a tuplet closes, the tuplet clone popped from the stack is the
\* object nested into the new top of the stack when the stack is not empty,
\* and the object appended to the current voice clone when it is.
C22_PoppedCloneIsNestedOrAppended ==
  (lastClosed.kind = "Tuplet" /\ status = "running") =>
    \E l \in links : l[1] = ClosedTupletOwner /\ ClosedTupletClone(l[2])

(***************************************************************************)
(* The note that is being visited.                                         *)
(***************************************************************************)
\* the non grace notes entered and not yet left
OpenNonGraceNotes ==
  {i \in DOMAIN visited :
     visited[i].kind = "Note" /\ visited[i].sub \notin GraceNoteKinds}

\* C23: while a non grace note is being visited, between its visitStart and
\* its visitEnd, fOnGoingNote is true; it is still true after a grace notes
\* group nested in the note and the grace notes of the group have been
\* visited.
C23_OnGoingNoteWhileNoteIsVisited ==
  (status = "running" /\ OpenNonGraceNotes # {}) => tr.fOnGoingNote

(***************************************************************************)
(* msr2LpsrTranslator: segments, measures and bar checks                   *)
(***************************************************************************)
MaxMeasureElts == 6    \* voices, segments and measures entered in one run

MeasureKinds ==
  {"kMeasureKindUnknown", "kMeasureKindRegular", "kMeasureKindAnacrusis",
   "kMeasureKindIncompleteIrrelevantToAnyRepeat",
   "kMeasureKindIncompleteLastInRepeatCommonPart",
   "kMeasureKindIncompleteLastInRepeatHookedEnding",
   "kMeasureKindIncompleteLastInRepeatHooklessEnding",
   "kMeasureKindOvercomplete", "kMeasureKindCadenza", "kMeasureKindEmpty"}

\* the measure kinds of the measures visited
VisitedMeasureKinds ==
  {"kMeasureKindRegular", "kMeasureKindUnknown", "kMeasureKindEmpty"}

\* msrBarCheck::create (inputLineNumber) at the end of the measure elt
BarCheckOf(elt) == [o |-> "new", kind |-> "BarCheck", id |-> elt.id, attr |-> "none"]

\* elt->getMeasureNumber ()
MeasureNumberOf(elt) ==
  [o |-> "value", kind |-> "MeasureNumber", id |-> elt.id, attr |-> "none"]

visitStart_Segment_effects(t, elt) ==
  <<Call(t.fCurrentVoiceClone, CloneOf(elt))>>

visitStart_Segment(t, elt) == [t EXCEPT !.fCurrentSegmentClone = CloneOf(elt)]

visitEnd_Segment_effects(t, elt) ==
  <<Call(t.fCurrentVoiceClone, t.fCurrentSegmentClone)>>

visitEnd_Segment(t, elt) == [t EXCEPT !.fCurrentSegmentClone = Null]

visitStart_Measure_effects(t, elt) ==
  <<Call(t.fCurrentSegmentClone, CloneOf(elt)),
    Call(t.fCurrentPartClone, MeasureNumberOf(elt))>>
  \o (IF t.fLastBarCheck # Null
      THEN <<Call(t.fLastBarCheck, MeasureNumberOf(elt))>>
      ELSE << >>)

visitStart_Measure_KeepBarCheck(t, elt) ==
  [t EXCEPT !.fCurrentMeasureClone = CloneOf(elt)]

visitStart_Measure(t, elt) ==
  [t EXCEPT !.fCurrentMeasureClone = CloneOf(elt), !.fLastBarCheck = Null]

doCreateABarCheck(elt) ==
  elt.sub \notin {"kMeasureKindUnknown", "kMeasureKindEmpty"}

visitEnd_Measure_effects(t, elt) ==
  <<Call(t.fCurrentMeasureClone, MsrRef(elt))>>
  \o (IF doCreateABarCheck(elt)
      THEN <<Call(t.fCurrentVoiceClone, BarCheckOf(elt))>>
      ELSE << >>)

visitEnd_Measure(t, elt) ==
  IF doCreateABarCheck(elt)
  THEN [t EXCEPT !.fLastBarCheck = BarCheckOf(elt)]
  ELSE t

(***************************************************************************)
(* The visit of the voices of a staff, with their segments and measures.   *)
(* It starts in the state the translator is in when it has entered part    *)
(* group 1, part 2 and regular staff 3.                                    *)
(***************************************************************************)
InStaff_visited == <<InVoice_pg, InVoice_part, InVoice_staff>>

InStaff_calls ==
  Calls(visitStart_Part_effects(InVoice_t1, InVoice_part))
  \cup Calls(visitStart_Staff_effects(InVoice_t2, InVoice_staff))

InStaff ==
  /\ tr = InVoice_t3
  /\ visited = InStaff_visited
  /\ nextElt = Len(InStaff_visited) + 1
  /\ mutated = {c.recv : c \in InStaff_calls}
  /\ links = {<<c.recv, c.arg>> : c \in InStaff_calls}
  /\ status = "running"
  /\ fatalLine = NoLine
  /\ lastClosed = NoneClosed
  /\ voiceRepeat = VoiceRepeatInit
  /\ lastCall = NoCall

MayEnterMeasures == nextElt <= Len(InStaff_visited) + MaxMeasureElts

VisitStartVoiceOfStaff ==
  /\ MayEnterMeasures
  /\ LET elt == Elt("Voice", "kRegularVoice", "musicInserted", nextElt, tr)
     IN Enter(elt, visitStart_Voice_effects(tr, elt), visitStart_Voice(tr, elt))

VisitEndVoiceOfStaff ==
  /\ Len(visited) > Len(InStaff_visited)
  /\ Leave("Voice", << >>, visitEnd_Voice(tr, Top))

VisitStartSegment ==
  /\ MayEnterMeasures
  /\ LET elt == Elt("Segment", "none", "none", nextElt, tr)
     IN Enter(elt, visitStart_Segment_effects(tr, elt),
              visitStart_Segment(tr, elt))

VisitEndSegment ==
  /\ visited # << >>
  /\ Leave("Segment", visitEnd_Segment_effects(tr, Top),
           visitEnd_Segment(tr, Top))

VisitStartMeasure ==
  /\ MayEnterMeasures
  /\ \E k \in VisitedMeasureKinds :
       LET elt == Elt("Measure", k, "none", nextElt, tr)
       IN Enter(elt, visitStart_Measure_effects(tr, elt),
                visitStart_Measure(tr, elt))

VisitEndMeasure ==
  /\ visited # << >>
  /\ Leave("Measure", visitEnd_Measure_effects(tr, Top),
           visitEnd_Measure(tr, Top))

NextMeasures ==
  \/ VisitStartVoiceOfStaff
  \/ VisitEndVoiceOfStaff
  \/ VisitStartSegment
  \/ VisitEndSegment
  \/ VisitStartMeasure
  \/ VisitEndMeasure

InitMeasures == InStaff /\ GuidoIdle /\ LpsrIdle

SpecMeasures == InitMeasures /\ [][NextMeasures]_vars

\* the bar checks appended to a voice clone
BarChecks == {l[2] : l \in {k \in links : k[2].kind = "BarCheck"}}

\* the next-bar numbers a bar check has been given
NextBarNumbers(b) == {l[2] : l \in {k \in links : k[1] = b}}

\* the measures whose visit has started after the bar check b was created
MeasuresStartedAfter(b) ==
  {l[2].id : l \in {k \in links : /\ k[1].kind = "Segment"
                                  /\ k[2].kind = "Measure"
                                  /\ k[2].id > b.id}}

FirstOf(ids) == CHOOSE i \in ids : \A j \in ids : i <= j

\* C24: the bar check created when a measure closes has no next-bar number
\* and is the pending one as long as no later measure has been entered; once
\* the visit of the next measure has started it has the number of that
\* measure and no other number.
C24_BarCheckResolvedByNextMeasure ==
  status = "running" =>
    \A b \in BarChecks :
      IF MeasuresStartedAfter(b) = {}
      THEN NextBarNumbers(b) = {} /\ tr.fLastBarCheck = b
      ELSE /\ NextBarNumbers(b) =
                {[o |-> "value", kind |-> "MeasureNumber",
                  id |-> FirstOf(MeasuresStartedAfter(b)), attr |-> "none"]}
           /\ tr.fLastBarCheck # b

\* a bar check has been resolved, and two measures have been entered after it
C24_Witness ==
  /\ status = "running"
  /\ \E b \in BarChecks :
       Cardinality(MeasuresStartedAfter(b)) >= 2 /\ NextBarNumbers(b) # {}

\* the voice clones a bar check has been appended to
VoicesOfBarCheck(b) == {l[1] : l \in {k \in links : k[2] = b}}

\* the voice clones whose segments hold the measure the number n is taken from
VoicesOfMeasureNumber(n) ==
  {l[1] : l \in {k \in links :
     /\ k[1].kind = "Voice"
     /\ k[2].kind = "Segment"
     /\ \E m \in links :
          m[1] = k[2] /\ m[2].kind = "Measure" /\ m[2].id = n.id}}

VoiceJustEntered == Top.kind = "Voice" /\ Top.id = nextElt - 1

\* C25: no bar check is pending when a voice has just been entered, and a
\* bar check is never given a next-bar number taken from a measure of another
\* voice than the one it was appended to.
C25_NoBarCheckAcrossVoices ==
  status = "running" =>
    /\ VoiceJustEntered => tr.fLastBarCheck = Null
    /\ \A b \in BarChecks : \A n \in NextBarNumbers(b) :
         VoicesOfMeasureNumber(n) = VoicesOfBarCheck(b)

(***************************************************************************)
(* Tuplet member notes closed outside of a tuplet.                         *)
(***************************************************************************)
TupletMemberNoteKinds ==
  {"kTupletMemberNote", "kGraceTupletMemberNote", "kTupletMemberUnpitchedNote"}

\* C26: a tuplet member note that is closed while the tuplet stack is empty
\* raises a fatal error carrying the input line number of the note; the top
\* of the empty stack is not read.
C26_TupletMemberOnEmptyStackIsFatal ==
  (/\ lastClosed.kind = "Note"
   /\ lastClosed.sub \in TupletMemberNoteKinds
   /\ lastClosed.pre.tuplets = 0) =>
    (status = "fatal" /\ fatalLine = lastClosed.line)

(***************************************************************************)
(* The time signature handed to the translation of a voice.                *)
(***************************************************************************)
\* C27: once parseTime has parsed the time signature of the part, the
\* rational it computed, the sum of the beats/beat-type pairs, is the time
\* signature handed to the translation of the next voice.
C27_ParsedTimeSignIsHandedToTheVoice ==
  (partRun.pc # "idle" /\ partRun.handed.done /\ partRun.handed.afterParse) =>
    partRun.handed.value = partRun.parsed.fCurrentTimeSign

(***************************************************************************)
(* The staff index of the voices of a part.                                *)
(***************************************************************************)
\* the staff tags written for the voices of the part
VoiceStaffTags ==
  {i \in DOMAIN guidoPart.out :
     guidoPart.out[i].tag = "staff" /\ guidoPart.out[i].by = "voice"}

\* C28: the staff index written in the staff tag of a voice is the staff
\* offset of the part plus the main staff of the voice, so two voices of the
\* part with different main staves have different staff indices.
C28_VoiceStaffIndexIsOffsetPlusMainStaff ==
  (guidoPart.id > 0 /\ ~ guidoPart.filtered) =>
    /\ \A i \in VoiceStaffTags :
         guidoPart.out[i].index
           = guidoPart.offset + guidoPart.out[i].mainstaff
    /\ \A i, j \in VoiceStaffTags :
         guidoPart.out[i].mainstaff # guidoPart.out[j].mainstaff
           => guidoPart.out[i].index # guidoPart.out[j].index

(***************************************************************************)
(* The staff indices that exist.                                           *)
(***************************************************************************)
\* the staff indices written so far in a staff tag, by createStaff or for a
\* voice, in all the parts visited
Created(r) == IF r.pc = "idle" THEN {} ELSE r.created

\* C29: the staff indices that exist are always 1..k, and a step that
\* creates a staff creates the staff k + 1: staves are created in increasing
\* index order without gaps, across the parts.
C29_StavesCreatedInOrderWithoutGaps ==
  [][/\ Created(partRun) = 1..Cardinality(Created(partRun))
     /\ Created(partRun') # Created(partRun) =>
          Created(partRun')
            = Created(partRun) \cup {Cardinality(Created(partRun)) + 1}]_vars

\* in the second part, the staff of a voice has been created after an
\* intermediate staff
C29_Witness ==
  /\ guidoPart.id = 2
  /\ partRun.pc = "voices"
  /\ partRun.i = 2
  /\ partRun.ret = "intermediate"
  /\ partRun.created = 1..4

(***************************************************************************)
(* The visit of the voices of a part with their notes and grace notes      *)
(* groups, up to the end of the part.  It starts inside part group 1,      *)
(* part 2 and regular staff 3.                                             *)
(***************************************************************************)
\* a voice holds standalone notes, a grace notes group holds grace notes
NoteKindIn(owner) ==
  IF owner.kind = "GraceNotesGroup" THEN "kGraceNote"
  ELSE IF owner.kind = "Chord" THEN "kChordMemberNote"
  ELSE "kStandaloneNote"

\* the first note of a chord is its first member note
NoteAttrIn(owner) ==
  IF owner.kind # "Chord" THEN "none"
  ELSE IF \E l \in links : l[1] = CloneOf(owner) /\ l[2].kind = "Note"
  THEN "otherMember" ELSE "firstMember"

VisitStartNoteOfVoice ==
  /\ MayEnterMeasures
  /\ LET elt == Elt("Note", NoteKindIn(Top), NoteAttrIn(Top), nextElt, tr)
     IN Enter(elt, << >>, visitStart_Note(tr, elt))

VisitStartGraceNotesGroupOfNote ==
  /\ MayEnterMeasures
  /\ LET elt == Elt("GraceNotesGroup", "noteUplink", AttachedTo(tr, Top),
                    nextElt, tr)
     IN Enter(elt, visitStart_GraceNotesGroup_effects(tr, elt),
              visitStart_GraceNotesGroup(tr, elt))

NextGrace ==
  \/ VisitStartVoiceOfStaff
  \/ VisitEndVoiceOfStaff
  \/ VisitStartNoteOfVoice
  \/ VisitEndNote
  \/ VisitStartGraceNotesGroupOfNote
  \/ VisitEndGraceNotesGroup
  \/ VisitEndStaff
  \/ VisitEndPart

SpecGrace == InitMeasures /\ [][NextGrace]_vars

\* the clones of the grace notes groups attached to the first non grace note
\* of their voice
GroupsOnFirstNote ==
  {l[2] : l \in {k \in links : /\ k[2].o = "clone"
                               /\ k[2].kind = "GraceNotesGroup"
                               /\ k[2].attr = "attachedToFirstNote"}}

\* the voice clones that hold the note the group is attached to
CarrierVoices(group) ==
  {l[1] : l \in {k \in links : /\ k[1].o = "clone" /\ k[1].kind = "Voice"
                               /\ <<k[2], group>> \in links}}

\* the voice clones the skip clone of the group has been prepended to
SkippedVoices(group) ==
  {l[1] : l \in {k \in links :
     k[2] = [group EXCEPT !.o = "skip"]}}

PartClosed == status = "running" /\ lastClosed.kind = "Part"

\* C30: when the part is closed, for a grace notes group attached to the
\* first non grace note of its voice, the skip clone of the group has been
\* prepended to every other voice of the part, and not to the voice that
\* carries the grace notes.
C30_SkipCloneInEverySiblingVoice ==
  PartClosed =>
    \A group \in GroupsOnFirstNote :
      SkippedVoices(group)
        = VoiceClonesOfPart(tr.fCurrentPartClone) \ CarrierVoices(group)

(***************************************************************************)
(* msr2LpsrTranslator: the elements attached to a note or to a chord       *)
(***************************************************************************)
appendToNoteOrChord_ChordFirst(t, elt) ==
  IF t.fOnGoingChord THEN <<Call(t.fCurrentChordClone, MsrRef(elt))>>
  ELSE IF t.fOnGoingNote
  THEN <<Call(t.fCurrentNonGraceNoteClone, MsrRef(elt))>>
  ELSE << >>

\* if (fOnGoingNote) fCurrentNonGraceNoteClone->append...ToNote (elt);
\* else if (fOnGoingChord) fCurrentChordClone->append...ToChord (elt);
appendToNoteOrChord(t, elt) ==
  IF t.fOnGoingNote THEN <<Call(t.fCurrentNonGraceNoteClone, MsrRef(elt))>>
  ELSE IF t.fOnGoingChord THEN <<Call(t.fCurrentChordClone, MsrRef(elt))>>
  ELSE << >>

visitStart_Articulation_effects(t, elt) == appendToNoteOrChord(t, elt)

\* the dynamics LilyPond does not know natively
NonNativeDynamics ==
  {"kFFFFF", "kFFFFFF", "kPPPPP", "kPPPPPP", "kRF", "kSFPP", "kSFFZ",
   "k_NoDynamics"}

visitStart_Dynamics_effects(t, elt) ==
  appendToNoteOrChord(t, elt)
  \o (IF t.fOnGoingNote /\ elt.sub \in NonNativeDynamics
      THEN <<Call(LpsrScore, Null)>> ELSE << >>)

visitStart_Words_effects(t, elt) == appendToNoteOrChord(t, elt)

visitStart_Spanner_effects(t, elt) == appendToNoteOrChord(t, elt)

visitStart_Glissando_effects(t, elt) ==
  appendToNoteOrChord(t, elt)
  \o (IF elt.sub = "text" THEN <<Call(LpsrScore, Null)>> ELSE << >>)

visitStart_Ornament_effects(t, elt) == appendToNoteOrChord(t, elt)

visitStart_Technical_effects(t, elt) ==
  appendToNoteOrChord(t, elt)
  \o (IF elt.sub \in {"kDoubleTongue", "kTripleTongue"}
      THEN <<Call(LpsrScore, Null)>> ELSE << >>)

visitStart_Wedge_effects(t, elt) == appendToNoteOrChord(t, elt)

\* msrNote::getNoteIsAChordsFirstMemberNote of a note clone, which has it
\* from the note it is the clone of
getNoteIsAChordsFirstMemberNote(note) == note.attr = "firstMember"

visitStart_Slur_AllMembers(t, elt) == appendToNoteOrChord(t, elt)

\* visitStart (S_msrSlur&): a chord member note that is not the first one
\* of its chord does not get the slur
visitStart_Slur_effects(t, elt) ==
  IF t.fOnGoingNote
  THEN IF /\ t.fCurrentNonGraceNoteClone.attr \in {"firstMember", "otherMember"}
          /\ ~ getNoteIsAChordsFirstMemberNote(t.fCurrentNonGraceNoteClone)
       THEN << >>
       ELSE <<Call(t.fCurrentNonGraceNoteClone, MsrRef(elt))>>
  ELSE IF t.fOnGoingChord THEN <<Call(t.fCurrentChordClone, MsrRef(elt))>>
  ELSE << >>

AttachedKinds ==
  {"Articulation", "Dynamics", "Words", "Spanner", "Glissando", "Ornament",
   "Technical", "Wedge", "Slur"}

\* the variants of an attached element that the handlers tell apart
AttachedVariants(kind) ==
  CASE kind = "Dynamics" -> {"kF", "kSFFZ"}
    [] kind = "Glissando" -> {"noText", "text"}
    [] kind = "Technical" -> {"kUpBow", "kDoubleTongue"}
    [] OTHER -> {"none"}

visitStart_Attached_effects(t, elt) ==
  CASE elt.kind = "Articulation" -> visitStart_Articulation_effects(t, elt)
    [] elt.kind = "Dynamics" -> visitStart_Dynamics_effects(t, elt)
    [] elt.kind = "Words" -> visitStart_Words_effects(t, elt)
    [] elt.kind = "Spanner" -> visitStart_Spanner_effects(t, elt)
    [] elt.kind = "Glissando" -> visitStart_Glissando_effects(t, elt)
    [] elt.kind = "Ornament" -> visitStart_Ornament_effects(t, elt)
    [] elt.kind = "Technical" -> visitStart_Technical_effects(t, elt)
    [] elt.kind = "Wedge" -> visitStart_Wedge_effects(t, elt)
    [] elt.kind = "Slur" -> visitStart_Slur_effects(t, elt)

(***************************************************************************)
(* The visit of the notes and the chords of a voice with the elements      *)
(* attached to them.  It starts inside voice 4.                            *)
(***************************************************************************)
MaxAttached == 2    \* elements appended to notes and chords in one run

\* the elements that have been appended to a note clone or a chord clone
Appended == {l[2] : l \in {k \in links : k[2].kind \in AttachedKinds}}

VisitStartAttached ==
  /\ MayEnterMeasures
  /\ Cardinality(Appended) < MaxAttached
  /\ \E kind \in AttachedKinds : \E variant \in AttachedVariants(kind) :
       LET elt == Elt(kind, variant, "none", nextElt, tr)
       IN Enter(elt, visitStart_Attached_effects(tr, elt), tr)

VisitEndAttached ==
  /\ visited # << >>
  /\ \E kind \in AttachedKinds : Leave(kind, << >>, tr)

VisitStartChordOfVoice ==
  /\ MayEnterMeasures
  /\ ParentKind = "Voice"
  /\ LET elt == Elt("Chord", "none", "none", nextElt, tr)
     IN Enter(elt, visitStart_Chord_effects(tr, elt), visitStart_Chord(tr, elt))

NextAttach ==
  \/ VisitStartNoteOfVoice
  \/ VisitEndNote
  \/ VisitStartChordOfVoice
  \/ VisitEndChord
  \/ VisitStartGraceNotesGroupOfNote
  \/ VisitEndGraceNotesGroup
  \/ VisitStartAttached
  \/ VisitEndAttached

SpecAttach == Init /\ [][NextAttach]_vars

\* the objects the element elt has been appended to
Holders(elt) == {l[1] : l \in {k \in links : k[2] = MsrRef(elt)}}

\* the elements attached to notes and chords that have been visited: the
\* one being visited and the one that was last closed
AttachedBeingVisited ==
  status = "running" /\ visited # << >> /\ Top.kind \in AttachedKinds

\* C31: every articulation, dynamics, words, spanner, glissando, ornament,
\* technical or wedge element that is visited is attached to a note clone or
\* to a chord clone: none is dropped because neither fOnGoingNote nor
\* fOnGoingChord was set when it was visited.
C31_NoAttachedElementDropped ==
  (AttachedBeingVisited /\ Top.kind # "Slur") =>
    \E h \in Holders(Top) : h.o = "clone" /\ h.kind \in {"Note", "Chord"}

\* C32: an articulation, dynamics, words, spanner or glissando element visited
\* while fOnGoingNote is set is attached to the current non grace note clone,
\* also when fOnGoingChord is set; visited while only fOnGoingChord is set it
\* is attached to the current chord clone.
C32_NoteFlagBeforeChordFlag ==
  (/\ AttachedBeingVisited
   /\ Top.kind \in {"Articulation", "Dynamics", "Words", "Spanner", "Glissando"})
  => /\ Top.snap.note => Holders(Top) = {tr.fCurrentNonGraceNoteClone}
     /\ (~ Top.snap.note /\ Top.snap.chord) =>
          Holders(Top) = {tr.fCurrentChordClone}

\* a dynamics has been attached to a member note of a chord while the chord
\* was on-going too
C32_Witness ==
  /\ AttachedBeingVisited
  /\ Top.kind = "Dynamics"
  /\ Top.snap.note /\ Top.snap.chord
  /\ Holders(Top) = {tr.fCurrentNonGraceNoteClone}
  /\ tr.fCurrentNonGraceNoteClone.attr = "otherMember"

\* C39: a slur visited while a chord member note is on-going is appended to
\* the clone of the note when the note is the first member of its chord, and
\* to nothing when it is another member.
C39_SlurOnFirstChordMemberOnly ==
  (/\ AttachedBeingVisited
   /\ Top.kind = "Slur"
   /\ Top.snap.note
   /\ tr.fCurrentNonGraceNoteClone.attr \in {"firstMember", "otherMember"})
  => Holders(Top) = IF tr.fCurrentNonGraceNoteClone.attr = "firstMember"
                    THEN {tr.fCurrentNonGraceNoteClone} ELSE {}

\* a slur has been visited in the second member note of a chord
C39_Witness ==
  /\ AttachedBeingVisited
  /\ Top.kind = "Slur"
  /\ Top.snap.note
  /\ visited[Len(visited) - 1].kind = "Note"
  /\ visited[Len(visited) - 1].attr = "otherMember"
  /\ Holders(Top) = {}

(***************************************************************************)
(* Closing a part group                                                    *)
(***************************************************************************)
\* the clones that hold x as a child
CloneHolders(x) == {l[1] : l \in {k \in links' : k[1].o = "clone" /\ k[2] = x}}

\* a step that leaves a part group and goes on
ClosesPartGroup ==
  /\ visited # << >>
  /\ Top.kind = "PartGroup"
  /\ visited' = SubSeq(visited, 1, Len(visited) - 1)
  /\ status' = "running"

PartGroupClosedAsSpecified ==
  LET closed == CloneOf(Top)
      n == Len(tr.fPartGroupsStack)
  IN /\ n >= 1
     /\ tr.fPartGroupsStack[n] = closed
     /\ tr'.fPartGroupsStack = SubSeq(tr.fPartGroupsStack, 1, n - 1)
     /\ \A i \in DOMAIN tr'.fPartGroupsStack : tr'.fPartGroupsStack[i] # closed
     /\ IF n = 1
        THEN CloneHolders(closed) = {MsrScoreClone}
        ELSE /\ CloneHolders(closed) = {CloneOf(visited[Len(visited) - 1])}
             /\ tr'.fPartGroupsStack[n - 1] = CloneOf(visited[Len(visited) - 1])

\* C33: when a part group closes, its clone is added to the score clone if
\* it is alone on the stack, otherwise it is appended as a sub-group to the
\* clone of the enclosing group, which becomes the new stack top; in both
\* cases the closed group is removed from the stack.
C33_ClosedPartGroupGoesToScoreOrEnclosingGroup ==
  [][ClosesPartGroup => PartGroupClosedAsSpecified]_vars

\* a nested part group and the outermost one have both been closed
C33_Witness ==
  /\ status = "running"
  /\ lastClosed.kind = "PartGroup"
  /\ lastClosed.pre.partGroups = 1
  /\ tr.fPartGroupsStack = << >>
  /\ \E l \in links :
       /\ l[1].o = "clone" /\ l[1].kind = "PartGroup"
       /\ l[2].o = "clone" /\ l[2].kind = "PartGroup"
       /\ <<MsrScoreClone, l[1]>> \in links

(***************************************************************************)
(* The accol and barFormat tags of a part                                  *)
(***************************************************************************)
\* the tags of this name that this rule has put in the output of the part
TagsBy(name, by) ==
  {i \in TagsNamed(guidoPart.out, name) : guidoPart.out[i].by = by}

\* the staff tags that open the sequences of the voices of the part
VoiceSequences == TagsBy("staff", "voice")

\* the sequence the tag of rank i is in: the last one opened before it
SequenceOf(i) ==
  CHOOSE k \in VoiceSequences :
    k < i /\ \A j \in VoiceSequences : j < i => j <= k

\* the first voice of the part whose staff index exceeds the accolade
\* index the part was entered with
FirstVoiceBeyondAccolade ==
  CHOOSE k \in VoiceSequences :
    /\ guidoPart.out[k].index > guidoPart.accolade
    /\ \A j \in VoiceSequences :
         guidoPart.out[j].index > guidoPart.accolade => k <= j

\* C34: each part with more than one staff receives the accol tag and the
\* system barFormat tag of the accolade exactly once, on the first of its
\* voices whose staff index exceeds the current accolade index; their range
\* goes from part offset + 1 to part offset + number of staves, and
\* afterwards the accolade index equals the range end.
C34_OneAccoladeOverTheStavesOfThePart ==
  (/\ guidoPart.id > 0
   /\ ~ guidoPart.filtered
   /\ guidoPart.countStaves > 1) =>
    /\ Cardinality(TagsBy("accol", "voice")) = 1
    /\ Cardinality(TagsBy("barFormat", "voice")) = 1
    /\ \A i \in TagsBy("accol", "voice") \cup TagsBy("barFormat", "voice") :
         /\ SequenceOf(i) = FirstVoiceBeyondAccolade
         /\ guidoPart.out[i].lo = guidoPart.offset + 1
         /\ guidoPart.out[i].hi = guidoPart.offset + guidoPart.countStaves
    /\ guido.fCurrentAccoladeIndex
         = guidoPart.offset + guidoPart.countStaves

\* C35: at most one accol tag is emitted into any single Guido staff
\* sequence: a voice that receives an accol tag from the bracket of its
\* part group does not also receive one from the accolade of the part.
C35_AtMostOneAccolTagPerSequence ==
  (guidoPart.id > 0 /\ ~ guidoPart.filtered) =>
    \A i, j \in TagsNamed(guidoPart.out, "accol") :
      SequenceOf(i) = SequenceOf(j) => i = j

(***************************************************************************)
(* The start and the end of a repeat                                       *)
(***************************************************************************)
\* a step in which the handler op of an element of this kind is called
CallsHandler(op, kind) ==
  /\ nextElt' = nextElt + 1
  /\ lastCall'.op = op
  /\ lastCall'.kind = kind

RepeatStartOpensWrapper ==
  (CallsHandler("visitStart", "Repeat") /\ voiceRepeat.active = {"Outside"}) =>
    /\ status' = "running"
    /\ voiceRepeat'.active = {"InCommonPart"}
    /\ voiceRepeat'.wrappers = voiceRepeat.wrappers + 1

RepeatEndClosesWrapper ==
  (CallsHandler("visitEnd", "Repeat")
     /\ voiceRepeat.active = {"InCommonPart"}) =>
    /\ status' = "running"
    /\ voiceRepeat'.active = {"Outside"}
    /\ voiceRepeat'.wrappers = voiceRepeat.wrappers - 1

\* C36: a repeat start event moves the voice from state Outside to
\* InCommonPart and opens a repeat wrapper; the matching repeat end event,
\* received in the common part, closes the wrapper and returns the voice to
\* Outside.
C36_RepeatStartAndEndMoveTheVoice ==
  [][RepeatStartOpensWrapper /\ RepeatEndClosesWrapper]_vars

\* a repeat was opened and its end has returned the voice to Outside
C36_Witness ==
  /\ status = "running"
  /\ lastCall.op = "visitEnd"
  /\ lastCall.kind = "Repeat"
  /\ lastCall.active = {"InCommonPart"}
  /\ voiceRepeat.active = {"Outside"}
  /\ voiceRepeat.wrappers = 0

(***************************************************************************)
(* msr2LpsrTranslator: the identification of the score and the end of the  *)
(* visit of the score.  elt.sub is the kind of a variable of the           *)
(* identification, elt.attr its value.                                     *)
(***************************************************************************)
QuotedTitle == "The \"Great\""
EscapedTitle == "The \\\"Great\\\""

\* stringQuoteEscaper puts a backslash before every double quote
stringQuoteEscaper(variableValueAux) ==
  IF variableValueAux = QuotedTitle THEN EscapedTitle ELSE variableValueAux

visitStart_Identification(t, elt) ==
  [t EXCEPT !.fOnGoingIdentification = TRUE]

visitEnd_Identification(t, elt) ==
  [t EXCEPT !.fOnGoingIdentification = FALSE]

\* the variable in the identification and in the header, and the flag of
\* the four variables the end of the score looks at
visitStart_VarValAssoc(t, elt) ==
  LET variableValue == VarValAssoc(stringQuoteEscaper(elt.attr))
  IN CASE elt.sub = "kWorkNumber" ->
            [t EXCEPT !.fCurrentIdentification.workNumber = variableValue,
                      !.fLpsrScoreHeader.workNumber = variableValue,
                      !.fWorkNumberKnown = TRUE]
       [] elt.sub = "kWorkTitle" ->
            [t EXCEPT !.fCurrentIdentification.workTitle = variableValue,
                      !.fLpsrScoreHeader.workTitle = variableValue,
                      !.fWorkTitleKnown = TRUE]
       [] elt.sub = "kMovementNumber" ->
            [t EXCEPT !.fCurrentIdentification.movementNumber = variableValue,
                      !.fLpsrScoreHeader.movementNumber = variableValue,
                      !.fMovementNumberKnown = TRUE]
       [] elt.sub = "kMovementTitle" ->
            [t EXCEPT !.fCurrentIdentification.movementTitle = variableValue,
                      !.fLpsrScoreHeader.movementTitle = variableValue,
                      !.fMovementTitleKnown = TRUE]
       [] OTHER -> t

\* use the movement title as the work title, forget the movement title
useMovementTitleAsWorkTitle(t) ==
  LET movementTitle == t.fCurrentIdentification.movementTitle.value
  IN [t EXCEPT !.fCurrentIdentification.workTitle = VarValAssoc(movementTitle),
               !.fLpsrScoreHeader.workTitle = VarValAssoc(movementTitle),
               !.fCurrentIdentification.movementTitle = VarValAssoc(""),
               !.fLpsrScoreHeader.movementTitle = VarValAssoc("")]

useMovementNumberAsWorkNumber(t) ==
  LET movementNumber == t.fCurrentIdentification.movementNumber.value
  IN [t EXCEPT !.fCurrentIdentification.workNumber = VarValAssoc(movementNumber),
               !.fLpsrScoreHeader.workNumber = VarValAssoc(movementNumber),
               !.fCurrentIdentification.movementNumber = VarValAssoc(""),
               !.fLpsrScoreHeader.movementNumber = VarValAssoc("")]

\* variant: the movement title is used only when the work title is known
visitEnd_Score_titles_BothKnown(t) ==
  IF t.fWorkTitleKnown /\ t.fMovementTitleKnown
  THEN IF /\ t.fCurrentIdentification.workTitle.value = ""
          /\ t.fCurrentIdentification.movementTitle.value # ""
       THEN useMovementTitleAsWorkTitle(t)
       ELSE t
  ELSE t

visitEnd_Score_titles(t) ==
  IF t.fWorkTitleKnown /\ t.fMovementTitleKnown
  THEN IF /\ t.fCurrentIdentification.workTitle.value = ""
          /\ t.fCurrentIdentification.movementTitle.value # ""
       THEN useMovementTitleAsWorkTitle(t)
       ELSE t
  ELSE IF ~ t.fWorkTitleKnown /\ t.fMovementTitleKnown
  THEN useMovementTitleAsWorkTitle(t)
  ELSE t

visitEnd_Score_numbers(t) ==
  IF t.fWorkNumberKnown /\ t.fMovementNumberKnown
  THEN IF /\ t.fCurrentIdentification.workNumber.value = ""
          /\ t.fCurrentIdentification.movementNumber.value # ""
       THEN useMovementNumberAsWorkNumber(t)
       ELSE t
  ELSE IF ~ t.fWorkNumberKnown /\ t.fMovementNumberKnown
  THEN useMovementNumberAsWorkNumber(t)
  ELSE t

\* visitEnd (S_msrScore&): the titles, then the numbers; the indents it sets
\* at its end are fields of the paper
visitEnd_Score(t, elt) == visitEnd_Score_numbers(visitEnd_Score_titles(t))

VarValAssocKinds ==
  {"kWorkNumber", "kWorkTitle", "kMovementNumber", "kMovementTitle",
   "kEncodingDate"}

VariableValues(kind) ==
  IF kind \in {"kWorkTitle", "kMovementTitle"}
  THEN {"", "Sonata", QuotedTitle}
  ELSE {"", "1"}

\* the variables of this kind that the identification was seen to hold
Seen(kind) ==
  CASE kind = "kWorkNumber" -> tr.fWorkNumberKnown
    [] kind = "kWorkTitle" -> tr.fWorkTitleKnown
    [] kind = "kMovementNumber" -> tr.fMovementNumberKnown
    [] kind = "kMovementTitle" -> tr.fMovementTitleKnown
    [] OTHER -> FALSE

ScoreEnded == lastClosed.kind = "Score"

\* the identification is the first child of the score
VisitStartIdentification ==
  /\ visited = << >>
  /\ nextElt = 1
  /\ ~ ScoreEnded
  /\ LET elt == Elt("Identification", "none", "none", nextElt, tr)
     IN Enter(elt, << >>, visitStart_Identification(tr, elt))

VisitEndIdentification ==
  /\ visited # << >>
  /\ Leave("Identification", << >>, visitEnd_Identification(tr, Top))

\* the identification holds at most one variable of each kind
VisitStartVarValAssoc ==
  /\ MayEnterStruct
  /\ visited # << >>
  /\ Top.kind = "Identification"
  /\ \E kind \in VarValAssocKinds : \E value \in VariableValues(kind) :
       /\ ~ Seen(kind)
       /\ LET elt == Elt("VarValAssoc", kind, value, nextElt, tr)
          IN Enter(elt, << >>, visitStart_VarValAssoc(tr, elt))

VisitEndVarValAssoc ==
  /\ visited # << >>
  /\ Leave("VarValAssoc", << >>, tr)

\* the end of the visit of the score, after its children
VisitEndScore ==
  /\ status = "running"
  /\ visited = << >>
  /\ ~ ScoreEnded
  /\ tr' = visitEnd_Score(tr, Null)
  /\ lastClosed' = [kind |-> "Score", sub |-> "none", id |-> 0, line |-> NoLine,
                    before |-> Snapshot(TranslatorInit),
                    pre |-> Snapshot(tr), after |-> Snapshot(tr')]
  /\ UNCHANGED <<visited, nextElt, mutated, links, status, fatalLine>>
  /\ UNCHANGED <<voiceRepeat, lastCall>>
  /\ UNCHANGED <<guidoVars, lpsrVars, resultVars>>

NextScoreEnd ==
  \/ VisitStartIdentification
  \/ VisitStartVarValAssoc
  \/ VisitEndVarValAssoc
  \/ VisitEndIdentification
  \/ VisitEndScore

SpecScoreEnd == InitStruct /\ [][NextScoreEnd]_vars

EndsScore == ~ ScoreEnded /\ lastClosed'.kind = "Score"

\* the movement title is known and the work title is unknown or empty
MovementTitleToBeUsed ==
  /\ tr.fMovementTitleKnown
  /\ \/ ~ tr.fWorkTitleKnown
     \/ tr.fCurrentIdentification.workTitle.value = ""

TitlesReconciled ==
  LET movementTitle == tr.fCurrentIdentification.movementTitle
  IN IF MovementTitleToBeUsed
     THEN /\ tr'.fCurrentIdentification.workTitle = movementTitle
          /\ tr'.fLpsrScoreHeader.workTitle = movementTitle
          /\ tr'.fCurrentIdentification.movementTitle = VarValAssoc("")
          /\ tr'.fLpsrScoreHeader.movementTitle = VarValAssoc("")
     ELSE /\ tr'.fCurrentIdentification.workTitle
               = tr.fCurrentIdentification.workTitle
          /\ tr'.fLpsrScoreHeader.workTitle = tr.fLpsrScoreHeader.workTitle
          /\ tr'.fCurrentIdentification.movementTitle
               = tr.fCurrentIdentification.movementTitle
          /\ tr'.fLpsrScoreHeader.movementTitle
               = tr.fLpsrScoreHeader.movementTitle

\* C40: at the end of the score visit, if the movement title is known and
\* the work title is unknown or empty, the work title is set to the
\* movement title, in both the identification and the LPSR header, and the
\* movement title is set to the empty string; otherwise both titles are
\* left unchanged.
C40_MovementTitleUsedAsMissingWorkTitle ==
  [][EndsScore => TitlesReconciled]_vars

\* the score had a movement title and no work title: the work title is now
\* the movement title
C40_Witness ==
  /\ ScoreEnded
  /\ tr.fMovementTitleKnown
  /\ ~ tr.fWorkTitleKnown
  /\ tr.fCurrentIdentification.workTitle = VarValAssoc("Sonata")
  /\ tr.fLpsrScoreHeader.workTitle = VarValAssoc("Sonata")
  /\ tr.fCurrentIdentification.movementTitle = VarValAssoc("")
  /\ tr.fLpsrScoreHeader.movementTitle = VarValAssoc("")

(***************************************************************************)
(* Deciphering a command line: decipherOptionsAndArguments run one         *)
(* command-line string at a time.                                          *)
(***************************************************************************)
DoubleDash == <<"-", "-">>

CommandLineStrings ==
  {<<"-">>, DoubleDash, <<"-", "o">>, <<"-", "d">>, <<"-", "b">>,
   <<"-", "g">>, <<"-", "x">>, <<"-", "-", "o">>, <<"-", "d", "=", "v">>,
   <<"f">>}

OptionalValuesStyleKinds ==
  {"kOptionalValuesStyleGNU", "kOptionalValuesStyleOAH"}

\* the handler is constructed in the GNU style; the command line is
\* deciphered under either case of the switches on the style
OahConstructed ==
  /\ oah \in {[oahHandler_oahHandler(argv)
                 EXCEPT !.fHandlerOptionalValuesStyleKind = style] :
                argv \in SeqsUpTo(CommandLineStrings, MaxArgs),
                style \in OptionalValuesStyleKinds}
  /\ score = lpsrScore_lpsrScore(FALSE, FALSE, FALSE)
  /\ harmony = msrHarmony_msrHarmony
  /\ browsed = NothingBrowsed
  /\ harmonyClone = NoClone
  /\ guidoOut = NoOutput
  /\ clefsInPart = {}

DecipherString ==
  /\ oah.running
  /\ oah.n <= Len(oah.argv)
  /\ oah' = decipherOptionsAndArguments_string(oah)
  /\ UNCHANGED <<trVars, guidoVars, lpsrVars, harmonyClone, guidoOut,
                 clefsInPart>>

EndOfCommandLine ==
  /\ oah.running
  /\ oah.n > Len(oah.argv)
  /\ oah' = decipherOptionsAndArguments_end(oah)
  /\ UNCHANGED <<trVars, guidoVars, lpsrVars, harmonyClone, guidoOut,
                 clefsInPart>>

NextOah ==
  \/ DecipherString
  \/ EndOfCommandLine

InitOah == ConstructedTranslator /\ GuidoIdle /\ OahConstructed

SpecOah == InitOah /\ [][NextOah]_vars

\* the command-line strings read so far, the one that raised an error
\* included
LastRead ==
  IF oah.running THEN oah.n - 1 ELSE Min(oah.n, Len(oah.argv))

\* C37: once the lone '--' has been read, every command-line string read
\* after it is appended to the arguments vector, even if it begins with '-'.
C37_EverythingAfterDoubleDashIsAnArgument ==
  \A k \in 1..LastRead :
    oah.argv[k] = DoubleDash =>
      LET after == SubSeq(oah.argv, k + 1, LastRead)
          arguments == oah.fHandlerArgumentsVector
      IN  /\ Len(arguments) >= Len(after)
          /\ SubSeq(arguments, Len(arguments) - Len(after) + 1,
                    Len(arguments)) = after

IsOption(currentString) ==
  /\ Len(currentString) >= 2
  /\ currentString[1] = "-"
  /\ currentString # DoubleDash

\* the name of the option a command-line string holds
OptionName(currentString) ==
  LET optionTrailer == Tail(currentString)
      currentOptionName ==
        IF optionTrailer[1] = "-" THEN Tail(optionTrailer) ELSE optionTrailer
  IN  IF EqualsSignPosition(currentOptionName) # 0
        THEN SubSeq(currentOptionName, 1,
                    EqualsSignPosition(currentOptionName) - 1)
        ELSE currentOptionName

IsKnownOption(currentString) ==
  /\ IsOption(currentString)
  /\ fetchElementFromMap(OptionName(currentString)) # NoElement

\* an error has been raised, whatever its message
MissingValueRaised == oah.errors # << >>

\* C38: once the command line is deciphered, a missing value error has been
\* raised if an option requiring a value was followed by another option or
\* by the end of the command line; and no option takes as its value a
\* string that comes after an intervening option.
C38_PendingValueMissingIsAnError ==
  /\ ~ oah.running =>
       \A p \in oah.madePending :
         /\ ~ fetchElementFromMap(p.atom).fValueIsOptional
         /\ \/ p.at = Len(oah.argv)
            \/ /\ p.at < Len(oah.argv)
               /\ IsKnownOption(oah.argv[p.at + 1])
         => MissingValueRaised
  /\ \A i \in DOMAIN oah.values :
       ~ oah.values[i].default =>
         \A k \in (oah.values[i].since + 1)..(oah.values[i].at - 1) :
           ~ IsOption(oah.argv[k])

====
